---- MODULE Spec2Model ----
(***************************************************************************)
(* A model of the text-indexing and text-cleanup core of                   *)
(* intel_simd_knowledge_toy.data_tools:                                    *)
(*   pdf_files/strdelim.py         StrDelim (delimiter scanner)            *)
(*   pdf_files/text_data_model.py  PdfPageSequence, PdfPageText            *)
(*   intel_manual_extract/text_cleanup.py  TextCleanup, TextCleanupProfile *)
(*                                                                         *)
(* A Python str is a sequence of characters; a character is a one-element  *)
(* TLA+ string (control characters without a TLA+ escape carry a name in   *)
(* angle brackets).  Offsets and indexes are Python's: 0-based, half-open. *)
(***************************************************************************)
EXTENDS Integers, Sequences, FiniteSets, TLC

VARIABLES
    full_text,      \* PdfPageSequence.full_text
    page_spans,     \* PdfPageSequence.page_spans (cached_property): [cached, value]
    cur_page,       \* the PdfPageText last returned by PdfPageSequence.__getitem__,
                    \* as a sequence of none or one
    line_spans,     \* cur_page.line_spans (cached_property): [cached, value]
    ret,            \* outcome of the last call on the page index
    pdf_first_pagenum,  \* PdfPageSequence.pdf_first_pagenum
    text,           \* TextCleanup.text
    profile,        \* TextCleanup.profile
    page_id,        \* TextCleanup.page_id
    page_title,     \* TextCleanup.page_title
    call,           \* the last TextCleanup method called, and what it returned
    job,            \* what PdfManualExtract is constructed with, and the world it
                    \* runs in: [config, bad, pages, toc_range, page_range]
    step,           \* the last call of PdfManualExtract that ended
    data_dir,       \* the files of the output directory: name -> content
    temp,           \* the temporary directories that exist: directory -> files
    spawned,        \* the pdftotext invocations made so far, in order
    raised,         \* the exception that reached the caller, or "none"
    lists,          \* the lists PdfManualExtract keeps between its steps
    ball            \* a TextBall and the files it looks at

idx_vars == <<full_text, page_spans, cur_page, line_spans, ret, pdf_first_pagenum>>
cln_vars == <<text, profile, page_id, page_title, call>>
run_vars == <<job, step, data_dir, temp, spawned, raised, lists, ball>>
vars == <<full_text, page_spans, cur_page, line_spans, ret, pdf_first_pagenum,
          text, profile, page_id, page_title, call,
          job, step, data_dir, temp, spawned, raised, lists, ball>>

----------------------------------------------------------------------------
(* Bounds of the model.                                                    *)

MaxTextLen == 3     \* longest full_text of a PdfPageSequence
MaxLines == 2       \* longest line list given to TextCleanup
MaxTokens == 4      \* most tokens concatenated into one input line
MaxPagePrefixes == 2    \* most "page-" the model lets cleanup put into a line
MaxPages == 3       \* pages of the PDF PdfManualExtract is run on

----------------------------------------------------------------------------
(* Characters.                                                             *)

FF  == "\f"
LF  == "\n"
CR  == "\r"
TAB == "\t"
VT  == "<VT>"
SUB == "<SUB>"      \* \x1a
NUL == "<NUL>"      \* \x00
ETX == "<ETX>"      \* \x03
EOT == "<EOT>"      \* \x04
FS  == "<FS>"       \* \x1c
GS  == "<GS>"       \* \x1d
RS  == "<RS>"       \* \x1e
NEL == "<NEL>"      \* \x85
LSEP == "<LS>"      \*
PSEP == "<PS>"      \*

\* Python None.  It is no str: no character is spelled this way.
None == <<"<None>">>

\* re's \s on a str pattern, and str.isspace(), within the model's characters.
IsSpace(c) == c \in {" ", TAB, LF, CR, FF, VT, FS, GS, RS, NEL, LSEP, PSEP}
\* re's \d
IsDigit(c) == c \in {"0", "1", "2", "3", "4", "5", "6", "7", "8", "9"}
IsUpper(c) == c \in {"A", "B", "C", "D", "E", "F", "G", "H", "I", "J", "K", "L", "M",
                     "N", "O", "P", "Q", "R", "S", "T", "U", "V", "W", "X", "Y", "Z"}
IsLower(c) == c \in {"a", "b", "c", "d", "e", "f", "g", "h", "i", "j", "k", "l", "m",
                     "n", "o", "p", "q", "r", "s", "t", "u", "v", "w", "x", "y", "z"}
\* re's \w
IsWord(c) == IsDigit(c) \/ IsUpper(c) \/ IsLower(c) \/ c = "_"

\* s[a:b] for 0 <= a, 0 <= b (Python clamps both to len(s)).
Slice(s, a, b) ==
    LET hi == IF b > Len(s) THEN Len(s) ELSE b
    IN  IF a >= hi THEN <<>> ELSE SubSeq(s, a + 1, hi)

\* s.startswith(lit, pos)
StartsWithAt(s, lit, pos) ==
    /\ pos + Len(lit) <= Len(s)
    /\ \A k \in 1..Len(lit) : s[pos + k] = lit[k]

\* All sequences over S of length at most n.
SeqsUpTo(S, n) == UNION {[1..k -> S] : k \in 0..n}

RECURSIVE Concat(_)
Concat(ss) == IF ss = <<>> THEN <<>> ELSE Head(ss) \o Concat(Tail(ss))

----------------------------------------------------------------------------
(* StrDelim: the delimiter scanner.                                        *)

\* get_pagebreak_regex: the alternatives of the pattern, in the order written.
PageBreakAlternatives == << <<FF>>, <<SUB>>, <<NUL>>, <<ETX>>, <<EOT>> >>

\* get_linebreak_regex: the alternatives of the pattern, in the order written.
LineBreakAlternatives ==
    << <<LF>>, <<CR>>, <<CR, LF>>, <<VT>>, <<FF>>, <<FS>>, <<GS>>, <<RS>>,
       <<NEL>>, <<LSEP>>, <<PSEP>> >>

\* The end of the match of an alternation of literals at pos: the first
\* alternative, in order, that matches there; -1 when none does.
AltMatchEnd(s, alts, pos) ==
    LET hits == {k \in 1..Len(alts) : StartsWithAt(s, alts[k], pos)}
    IN  IF hits = {} THEN -1
        ELSE LET first == CHOOSE k \in hits : \A j \in hits : k <= j
             IN  pos + Len(alts[first])

\* pattern.finditer(text): the (start, end) of the non-overlapping matches,
\* leftmost first, scanning on from the end of each match.
RECURSIVE FindIter(_, _, _)
FindIter(s, alts, pos) ==
    IF pos >= Len(s) THEN <<>>
    ELSE LET e == AltMatchEnd(s, alts, pos)
         IN  IF e = -1 THEN FindIter(s, alts, pos + 1)
             ELSE <<<<pos, e>>>> \o FindIter(s, alts, e)

\* get_spans with each content span starting where the delimiter before it
\* starts, not where it ends.
get_spans_from_delim_start(s, alts) ==
    LET char_count == Len(s)
        delim_spans == <<<<0, 0>>>> \o FindIter(s, alts, 0)
                         \o <<<<char_count, char_count>>>>
    IN  [i \in 1..(Len(delim_spans) - 1) |->
            <<delim_spans[i][1], delim_spans[i + 1][1]>>]

\* StrDelim.get_spans
get_spans(s, alts) ==
    LET char_count == Len(s)
        delim_spans == <<<<0, 0>>>> \o FindIter(s, alts, 0)
                         \o <<<<char_count, char_count>>>>
    IN  [i \in 1..(Len(delim_spans) - 1) |->
            <<delim_spans[i][2], delim_spans[i + 1][1]>>]

get_page_spans(s) == get_spans(s, PageBreakAlternatives)
get_line_spans(s) == get_spans(s, LineBreakAlternatives)

----------------------------------------------------------------------------
(* Python's tuple indexing, as used by both __getitem__ methods.           *)

\* The 1-based position tuple[i] reads, or 0 when it raises IndexError:
\* a negative i counts from the end.
TupleIndex(n, i) ==
    IF 0 <= i /\ i < n THEN i + 1
    ELSE IF i < 0 /\ -n <= i THEN n + i + 1
    ELSE 0

\* Reading a functools.cached_property: the value the read yields.
CachedRead(cache, computed) == IF cache.cached THEN cache.value ELSE computed
\* (a variant: a property that runs its function on every read)
CachedStore_recomputing(cache, computed) ==
    [cached |-> TRUE, value |-> computed, scans |-> cache.scans + 1]

\* Reading a functools.cached_property: the cache after the read.  scans
\* counts the runs of the property's function, the delimiter scan.
CachedStore(cache, computed) ==
    IF cache.cached THEN cache
    ELSE [cached |-> TRUE, value |-> computed, scans |-> cache.scans + 1]

Uncached == [cached |-> FALSE, value |-> <<>>, scans |-> 0]
NoCall == [op |-> "none", arg |-> 0, status |-> "none", value |-> 0]
NoCleanupCall == [op |-> "none", value |-> "none"]

----------------------------------------------------------------------------
(* PdfPageSequence and PdfPageText.                                        *)

\* The PdfPageText that PdfPageSequence.__getitem__(page_idx) builds from the
\* span at 1-based position pos.
PageAt(txt, spans, first, page_idx, pos) ==
    [page_idx |-> page_idx,
     pdf_pagenum |-> first + page_idx,
     page_text |-> Slice(txt, spans[pos][1], spans[pos][2])]

\* The PdfPageLine that PdfPageText.__getitem__(line_idx) builds.
LineAt(page, spans, line_idx, pos) ==
    [page_idx |-> page.page_idx,
     pdf_pagenum |-> page.pdf_pagenum,
     line_idx |-> line_idx,
     char_start |-> spans[pos][1],
     char_stop |-> spans[pos][2],
     text |-> Slice(page.page_text, spans[pos][1], spans[pos][2])]

\* The indexes the model passes to __getitem__.
IndexArgs == (0 - (MaxTextLen + 2))..(MaxTextLen + 2)

\* PdfPageSequence.__len__
SeqLen ==
    LET spans == CachedRead(page_spans, get_page_spans(full_text))
    IN  /\ page_spans' = CachedStore(page_spans, get_page_spans(full_text))
        /\ ret' = [op |-> "seq_len", arg |-> 0, status |-> "ok", value |-> Len(spans)]
        /\ UNCHANGED <<full_text, pdf_first_pagenum, cur_page, line_spans>>
        /\ UNCHANGED cln_vars
        /\ UNCHANGED run_vars

\* PdfPageSequence.__getitem__
SeqGetItem(page_idx) ==
    LET spans == CachedRead(page_spans, get_page_spans(full_text))
        pos == TupleIndex(Len(spans), page_idx)
    IN  /\ page_spans' = CachedStore(page_spans, get_page_spans(full_text))
        /\ IF pos = 0
           THEN /\ ret' = [op |-> "seq_getitem", arg |-> page_idx,
                           status |-> "IndexError", value |-> 0]
                /\ UNCHANGED <<cur_page, line_spans>>
           ELSE LET page == PageAt(full_text, spans, pdf_first_pagenum, page_idx, pos)
                IN  /\ ret' = [op |-> "seq_getitem", arg |-> page_idx,
                                status |-> "ok", value |-> page]
                    /\ cur_page' = <<page>>
                    /\ line_spans' = Uncached
        /\ UNCHANGED <<full_text, pdf_first_pagenum>>
        /\ UNCHANGED cln_vars
        /\ UNCHANGED run_vars

\* PdfPageText.__len__, on the page last obtained
PageLen ==
    /\ Len(cur_page) = 1
    /\ LET spans == CachedRead(line_spans, get_line_spans(cur_page[1].page_text))
       IN  /\ line_spans' = CachedStore(line_spans, get_line_spans(cur_page[1].page_text))
           /\ ret' = [op |-> "page_len", arg |-> 0, status |-> "ok",
                      value |-> Len(spans)]
    /\ UNCHANGED <<full_text, pdf_first_pagenum, page_spans, cur_page>>
    /\ UNCHANGED cln_vars
    /\ UNCHANGED run_vars

\* PdfPageText.__getitem__, on the page last obtained
PageGetItem(line_idx) ==
    /\ Len(cur_page) = 1
    /\ LET spans == CachedRead(line_spans, get_line_spans(cur_page[1].page_text))
           pos == TupleIndex(Len(spans), line_idx)
       IN  /\ line_spans' = CachedStore(line_spans, get_line_spans(cur_page[1].page_text))
           /\ ret' = IF pos = 0
                     THEN [op |-> "page_getitem", arg |-> line_idx,
                           status |-> "IndexError", value |-> 0]
                     ELSE [op |-> "page_getitem", arg |-> line_idx, status |-> "ok",
                           value |-> LineAt(cur_page[1], spans, line_idx, pos)]
    /\ UNCHANGED <<full_text, pdf_first_pagenum, page_spans, cur_page>>
    /\ UNCHANGED cln_vars
    /\ UNCHANGED run_vars

\* The characters of the texts the model indexes.
IndexChars == {"a", FF, SUB, LF, CR}
\* The first page numbers the model constructs a PdfPageSequence with.
FirstPageNums == {1, 3}

\* No files: a function of no name.
NoFiles == <<>>
NoLists == [dirty_pages |-> <<>>, clean_pages |-> <<>>]

RunIdle ==
    /\ job = <<>>
    /\ step = "none"
    /\ data_dir = NoFiles
    /\ temp = NoFiles
    /\ spawned = <<>>
    /\ raised = "none"
    /\ lists = NoLists
    /\ ball = <<>>

CleanupIdle ==
    /\ text = <<>>
    /\ profile = <<>>
    /\ page_id = None
    /\ page_title = None
    /\ call = NoCleanupCall

\* PdfPageSequence(pdf_first_pagenum, full_text), nothing computed yet.
InitIndex ==
    /\ full_text \in SeqsUpTo(IndexChars, MaxTextLen)
    /\ pdf_first_pagenum \in FirstPageNums
    /\ page_spans = Uncached
    /\ cur_page = <<>>
    /\ line_spans = Uncached
    /\ ret = NoCall
    /\ CleanupIdle
    /\ RunIdle

NextIndex ==
    \/ SeqLen
    \/ \E i \in IndexArgs : SeqGetItem(i)
    \/ PageLen
    \/ \E j \in IndexArgs : PageGetItem(j)

SpecIndex == InitIndex /\ [][NextIndex]_vars

----------------------------------------------------------------------------
(* TextCleanup: string helpers and the compiled patterns.                  *)

\* str.strip(): c is the first position (0-based) holding no whitespace.
RECURSIVE SkipSpace(_, _)
SkipSpace(s, pos) ==
    IF pos < Len(s) /\ IsSpace(s[pos + 1]) THEN SkipSpace(s, pos + 1) ELSE pos

\* The end of the whitespace-free part: the position after the last
\* character that is no whitespace.
RECURSIVE SkipSpaceBack(_, _)
SkipSpaceBack(s, end) ==
    IF end > 0 /\ IsSpace(s[end]) THEN SkipSpaceBack(s, end - 1) ELSE end

\* line.lstrip() only.
str_lstrip(s) == Slice(s, SkipSpace(s, 0), Len(s))

\* line.strip()
str_strip(s) == Slice(s, SkipSpace(s, 0), SkipSpaceBack(s, Len(s)))

LINE_IGNORED_blank_only == { <<>> }

\* _LINE_IGNORED
LINE_IGNORED == { <<>>,
                  <<"C", "O", "N", "T", "E", "N", "T", "S">>,
                  <<"P", "A", "G", "E">> }

\* _REPL_SPACETAB
REPL_SPACETAB == <<" ", " ", " ", " ">>
\* _REPL_DOTSPACE
REPL_DOTSPACE == <<" ", " ", ".", ".", ".", " ", " ">>
\* The literal text of _REPL_PAGEID before the group reference.
REPL_PAGEID_PREFIX == <<"p", "a", "g", "e", "-">>
\* The literal "Vol. 2" of _RE_VOL_ROMAN and _RE_VOL_PAGEID.
VOL_LITERAL == <<"V", "o", "l", ".", " ", "2">>

\* $ without re.MULTILINE: at the end, or just before a newline that ends
\* the string.
AtDollar(s, pos) == pos = Len(s) \/ (pos = Len(s) - 1 /\ s[Len(s)] = LF)

\* \b: exactly one of the characters on the two sides of pos is a word
\* character.
AtWordBoundary(s, pos) ==
    LET before == pos > 0 /\ IsWord(s[pos])
        after == pos < Len(s) /\ IsWord(s[pos + 1])
    IN  before # after

\* The position after the longest run, from pos, of characters with Is(c).
SkipWhile(Is(_), s, pos) ==
    IF pos >= Len(s) THEN pos
    ELSE CHOOSE q \in pos..Len(s) :
            /\ \A k \in (pos + 1)..q : Is(s[k])
            /\ (q = Len(s) \/ ~Is(s[q + 1]))

IsTab(c) == c = TAB
IsDot(c) == c = "."
IsRoman(c) == c \in {"i", "v", "x"}
IsVolLetter(c) == c \in {"A", "B", "C", "D"}
\* [1-9A-Z]
IsIdLead(c) == (IsDigit(c) /\ c # "0") \/ IsUpper(c)

Min(a, b) == IF a < b THEN a ELSE b

\* "Vol\. (2[A-D])" at pos: the position after it, or -1.
VolEnd(s, pos) ==
    IF /\ StartsWithAt(s, VOL_LITERAL, pos)
       /\ pos + 6 < Len(s)
       /\ IsVolLetter(s[pos + 7])
    THEN pos + 7 ELSE -1

\* "[1-9A-Z]-\d{1,3}" at pos, taking as many digits as it can: the position
\* after it, or -1.
IdEnd(s, pos) ==
    IF /\ pos + 2 < Len(s)
       /\ IsIdLead(s[pos + 1])
       /\ s[pos + 2] = "-"
       /\ IsDigit(s[pos + 3])
    THEN Min(SkipWhile(IsDigit, s, pos + 2), pos + 5)
    ELSE -1

\* The rest of _RE_PAGEID once "[1-9A-Z]-\d{1,3}" has matched from pos to e:
\* \b before, \b after and $.
PageidGroupEnd(s, pos, e) ==
    IF /\ e # -1
       /\ AtWordBoundary(s, pos)
       /\ AtWordBoundary(s, e)
       /\ AtDollar(s, e)
    THEN e ELSE -1

\* _RE_PAGEID = (\b[1-9A-Z]-\d{1,3}\b)$ tried at pos: the end of the match, or
\* -1.  Fewer digits than the run holds leave a digit after the group, where
\* \b fails, so only the longest run can match.
PageidMatchAt(s, pos) == PageidGroupEnd(s, pos, IdEnd(s, pos))

\* _RE_PAGEID.search(s) from pos on: <<start, end>> of the leftmost match, or
\* <<-1, -1>>.
PageidFound(s, p) == <<p, PageidMatchAt(s, p)>>
PageidSearchFrom(s, pos) ==
    IF \A p \in pos..Len(s) : PageidMatchAt(s, p) = -1 THEN <<-1, -1>>
    ELSE PageidFound(s, CHOOSE p \in pos..Len(s) :
                            /\ PageidMatchAt(s, p) # -1
                            /\ \A k \in pos..(p - 1) : PageidMatchAt(s, k) = -1)

\* _RE_PAGEID.search(s)
PageidSearch(s) == PageidSearchFrom(s, 0)

\* s with the match m of _RE_PAGEID replaced by _REPL_PAGEID = page-\1.
PageidReplace(s, m) ==
    IF m[1] = -1 THEN s
    ELSE Slice(s, 0, m[1]) \o REPL_PAGEID_PREFIX \o Slice(s, m[1], m[2])
           \o Slice(s, m[2], Len(s))

\* _RE_PAGEID.sub(_REPL_PAGEID, s).  The pattern ends in $, and after a match
\* nothing but a final newline is left, where it cannot match again.
PageidSub(s) == PageidReplace(s, PageidSearch(s))

NoVolPageid == [ok |-> FALSE, id |-> None]

\* The end of _RE_VOL_PAGEID, \s* having taken the whitespace up to q and
\* "[1-9A-Z]-\d{1,3}" matching from q to e (or not, e = -1): group 3 and $, or
\* $ without group 3.  \s* takes the whole run: group 3 cannot start on
\* whitespace, and $ holds before the whitespace ends only where it also
\* holds after it.
VolPageidEnd(s, q, e) ==
    IF e # -1 /\ AtDollar(s, e) THEN [ok |-> TRUE, id |-> Slice(s, q, e)]
    ELSE IF AtDollar(s, q) THEN [ok |-> TRUE, id |-> None]
    ELSE NoVolPageid

VolPageidGap(s, q) == VolPageidEnd(s, q, IdEnd(s, q))

VolPageidVol(s, v) ==
    IF v = -1 THEN NoVolPageid ELSE VolPageidGap(s, SkipWhile(IsSpace, s, v))

\* _RE_VOL_PAGEID = ^(.+)\bVol\. (2[A-D])\s*([1-9A-Z]-\d{1,3})?$ with group 1
\* being the first n characters: [ok, id] where id is group 3, or None when
\* it did not take part.
VolPageidTail(s, n) ==
    IF AtWordBoundary(s, n) THEN VolPageidVol(s, VolEnd(s, n)) ELSE NoVolPageid

IsNotNewline(c) == c # LF

\* The match of _RE_VOL_PAGEID with the longest group 1 of at most n
\* characters: [matched, n, id].  The longest first, as the greedy (.+)
\* gives characters back.
VolPageidAt(s, m) == [matched |-> TRUE, n |-> m, id |-> VolPageidTail(s, m).id]
VolPageidLongest(s, n) ==
    IF \A m \in 1..n : ~VolPageidTail(s, m).ok
    THEN [matched |-> FALSE, n |-> 0, id |-> None]
    ELSE VolPageidAt(s, CHOOSE m \in 1..n :
                            /\ VolPageidTail(s, m).ok
                            /\ \A k \in (m + 1)..n : ~VolPageidTail(s, k).ok)

\* _RE_VOL_PAGEID.search(s): [matched, n, id] with group 1 the first n
\* characters of s and id group 3.  "." matches no newline, so group 1 ends
\* before the first one.
VolPageidSearch(s) == VolPageidLongest(s, SkipWhile(IsNotNewline, s, 0))

VolRomanVol(s, v) ==
    /\ v # -1
    /\ AtDollar(s, SkipWhile(IsRoman, s, SkipWhile(IsSpace, s, v)))

VolRomanGap(s, b) == AtWordBoundary(s, b) /\ VolRomanVol(s, VolEnd(s, b))

\* _RE_VOL_ROMAN = ^([ivx]*)\s*\bVol\. (2[A-D])\s*([ivx]*)$ : whether
\* findall(s) is non-empty.  Each run is taken whole: a shorter one leaves a
\* character the next part of the pattern does not match.
VolRomanMatches(s) ==
    VolRomanGap(s, SkipWhile(IsSpace, s, SkipWhile(IsRoman, s, 0)))

\* (?:\t{1,}+|\s{4,}+) at p, given where the tabs and where the whitespace
\* from p end: the end of the match, or -1.  Both repetitions are possessive.
SpacetabTailEnd(p, tabs, spaces) ==
    IF tabs > p THEN tabs
    ELSE IF spaces >= p + 4 THEN spaces
    ELSE -1

SpacetabTail(s, p) ==
    SpacetabTailEnd(p, SkipWhile(IsTab, s, p), SkipWhile(IsSpace, s, p))

\* The first of two alternatives that matched.
FirstMatch(a, b) == IF a # -1 THEN a ELSE b

\* _RE_SPACETAB = (\t|\s\s\s\s)(?:\t{1,}+|\s{4,}+) tried at pos: the end of
\* the match, or -1.  Group 1 tries a tab first and, if the rest fails, four
\* whitespace characters.
SpacetabMatchAt(s, pos) ==
    FirstMatch(
        IF pos < Len(s) /\ s[pos + 1] = TAB THEN SpacetabTail(s, pos + 1) ELSE -1,
        IF SkipWhile(IsSpace, s, pos) >= pos + 4 THEN SpacetabTail(s, pos + 4) ELSE -1)

\* The number of repetitions of (?:\.\s) from pos, taken possessively.
RECURSIVE DotSpacePairs(_, _)
DotSpacePairs(s, pos) ==
    IF pos + 1 < Len(s) /\ s[pos + 1] = "." /\ IsSpace(s[pos + 2])
    THEN 1 + DotSpacePairs(s, pos + 2) ELSE 0

\* \.{0,}+ after n repetitions of (?:\.\s) from pos, if {8,} allows n.
DotspaceEnd(s, pos, n) ==
    IF n >= 8 THEN SkipWhile(IsDot, s, pos + 2 * n) ELSE -1

\* _RE_DOTSPACE = (?:\.\s){8,}+\.{0,}+ tried at pos: the end of the match,
\* or -1.
DotspaceMatchAt(s, pos) == DotspaceEnd(s, pos, DotSpacePairs(s, pos))

\* pattern.sub(repl, s) for a pattern that matches no empty string: the
\* matches are replaced left to right, the scan going on after each match.
RECURSIVE RegexSub(_, _, _, _)
RegexSub(MatchAt(_, _), repl, s, pos) ==
    IF pos >= Len(s) THEN <<>>
    ELSE IF \A p \in pos..(Len(s) - 1) : MatchAt(s, p) = -1 THEN Slice(s, pos, Len(s))
    ELSE LET first == CHOOSE p \in pos..(Len(s) - 1) :
                          /\ MatchAt(s, p) # -1
                          /\ \A k \in pos..(p - 1) : MatchAt(s, k) = -1
         IN  Slice(s, pos, first) \o repl \o RegexSub(MatchAt, repl, s, MatchAt(s, first))

SpacetabSub(s) == RegexSub(SpacetabMatchAt, REPL_SPACETAB, s, 0)
DotspaceSub(s) == RegexSub(DotspaceMatchAt, REPL_DOTSPACE, s, 0)

\* [f(line) for line in lines]
MapLines(f(_), lines) == [i \in 1..Len(lines) |-> f(lines[i])]

\* [line for line in lines if keep(line)]
RECURSIVE FilterLines(_, _)
FilterLines(keep(_), lines) ==
    IF lines = <<>> THEN <<>>
    ELSE (IF keep(Head(lines)) THEN <<Head(lines)>> ELSE <<>>)
         \o FilterLines(keep, Tail(lines))

----------------------------------------------------------------------------
(* TextCleanup: the methods, as functions of the fields they read.         *)

\* The fields of TextCleanupProfile, in declaration order: the order in
\* which dataclasses.asdict(profile).items() yields them.
PROFILE_FIELDS_by_name ==
    <<"reformat_pageid", "remove_ignored", "remove_vol_roman", "replace_dotspace",
      "replace_spacetab", "scan_page_id", "strip">>

PROFILE_FIELDS ==
    <<"strip", "remove_ignored", "scan_page_id", "remove_vol_roman",
      "replace_spacetab", "replace_dotspace", "reformat_pageid">>

\* TextCleanupProfile(): every field defaults to True.
\* Field values are spelled as Python spells them, so that a profile can hold
\* a value that is no bool.
PyBool == {"True", "False"}
DefaultProfile == [f \in {PROFILE_FIELDS[i] : i \in 1..Len(PROFILE_FIELDS)} |-> "True"]

\* TextCleanup.strip: the new text
strip(lines) == MapLines(str_strip, lines)

NotIgnored(line) == line \notin LINE_IGNORED
\* TextCleanup.remove_ignored: the new text
remove_ignored(lines) == FilterLines(NotIgnored, lines)

NotVolRoman(line) == ~VolRomanMatches(line)
\* TextCleanup.remove_vol_roman: the new text
remove_vol_roman(lines) == FilterLines(NotVolRoman, lines)

\* TextCleanup.replace_spacetab: the new text
replace_spacetab(lines) == MapLines(SpacetabSub, lines)

\* TextCleanup.replace_dotspace: the new text
replace_dotspace(lines) == MapLines(DotspaceSub, lines)

\* TextCleanup.reformat_pageid: the new text
reformat_pageid(lines) == MapLines(PageidSub, lines)

\* Python truthiness of an Optional[str]
Truthy(v) == v # None /\ v # <<>>

\* page_id taken from the end of the stripped title, match2 being
\* _RE_PAGEID.search(page_title), and rewritten by _RE_PAGEID.sub; None when
\* match2 is no match.
IdFromTitleMatch(title, match2) ==
    IF match2[1] # -1 THEN PageidSub(Slice(title, match2[1], match2[2])) ELSE None

IdFromTitle(title) == IdFromTitleMatch(title, PageidSearch(title))

\* One turn of the loop of scan_page_id on a line that matched
\* _RE_VOL_PAGEID with groups 1 and 3 being title and id: the page id the
\* line yields, or None.
ScanLineId_bare_id(title, id) ==
    IF Truthy(id) THEN id ELSE IdFromTitle(str_strip(title))

ScanLineId(title, id) ==
    IF Truthy(id) THEN PageidSub(id) ELSE IdFromTitle(str_strip(title))

\* The loop of scan_page_id from line i (1-based) towards the first line:
\* the (page_id, page_title) it leaves in the object.  Only a line that
\* yields a page id ends the loop.
RECURSIVE ScanLoop(_, _)
RECURSIVE ScanLine(_, _, _)
RECURSIVE ScanMatched(_, _, _, _)
\* (a variant: a title that strips to nothing is stored as None)
ScanMatched_untitled(lines, i, title, id) ==
    IF id # None
    THEN [page_id |-> id,
          page_title |-> IF str_strip(title) = <<>> THEN None ELSE str_strip(title)]
    ELSE ScanLoop(lines, i - 1)

ScanMatched(lines, i, title, id) ==
    IF id # None THEN [page_id |-> id, page_title |-> str_strip(title)]
    ELSE ScanLoop(lines, i - 1)

ScanLine(lines, i, match) ==
    IF match.matched
    THEN ScanMatched(lines, i, Slice(lines[i], 0, match.n),
                     ScanLineId(Slice(lines[i], 0, match.n), match.id))
    ELSE ScanLoop(lines, i - 1)

ScanLoop(lines, i) ==
    IF i = 0 THEN [page_id |-> None, page_title |-> None]
    ELSE ScanLine(lines, i, VolPageidSearch(lines[i]))

\* lines in the opposite order.
Reverse(lines) == [k \in 1..Len(lines) |-> lines[Len(lines) + 1 - k]]

scan_page_id_top_down(lines, pid, ptitle) ==
    IF Truthy(ptitle) \/ Truthy(pid)
    THEN [page_id |-> pid, page_title |-> ptitle]
    ELSE ScanLoop(Reverse(lines), Len(lines))

scan_page_id_rescan(lines, pid, ptitle) == ScanLoop(lines, Len(lines))

\* TextCleanup.scan_page_id: the (page_id, page_title) of the object after
\* the call, which is also what the call returns.
scan_page_id(lines, pid, ptitle) ==
    IF Truthy(ptitle) \/ Truthy(pid)
    THEN [page_id |-> pid, page_title |-> ptitle]
    ELSE ScanLoop(lines, Len(lines))

WithIds(o, r) == [o EXCEPT !.page_id = r.page_id, !.page_title = r.page_title]

\* getattr(self, method)() on the object o = [text, page_id, page_title]:
\* the object after the call.
CallMethod(method, o) ==
    IF method = "strip" THEN [o EXCEPT !.text = strip(o.text)]
    ELSE IF method = "remove_ignored" THEN [o EXCEPT !.text = remove_ignored(o.text)]
    ELSE IF method = "scan_page_id"
    THEN WithIds(o, scan_page_id(o.text, o.page_id, o.page_title))
    ELSE IF method = "remove_vol_roman"
    THEN [o EXCEPT !.text = remove_vol_roman(o.text)]
    ELSE IF method = "replace_spacetab"
    THEN [o EXCEPT !.text = replace_spacetab(o.text)]
    ELSE IF method = "replace_dotspace"
    THEN [o EXCEPT !.text = replace_dotspace(o.text)]
    ELSE [o EXCEPT !.text = reformat_pageid(o.text)]

\* What run_profile stores in results for a method: scan_page_id returns a
\* tuple, every other method returns self, which is left out.
MethodResult(method, o) ==
    IF method = "scan_page_id" THEN <<<<method, <<o.page_id, o.page_title>>>>>>
    ELSE <<>>

\* The loop of run_profile from field k on: the object after it, the methods
\* it called in order (calls) and the results dictionary it filled.
\* RunProfileCalled is the rest of one turn, o the object after the call.
RECURSIVE RunProfileLoop(_, _, _)
RECURSIVE RunProfileCalled(_, _, _, _)
RunProfileCalled(prof, k, acc, o) ==
    RunProfileLoop(prof, k + 1,
        [obj |-> o,
         calls |-> Append(acc.calls, PROFILE_FIELDS[k]),
         results |-> acc.results \o MethodResult(PROFILE_FIELDS[k], o)])

RunProfileLoop(prof, k, acc) ==
    IF k > Len(PROFILE_FIELDS) THEN acc
    ELSE IF prof[PROFILE_FIELDS[k]] = "False" THEN RunProfileLoop(prof, k + 1, acc)
    ELSE RunProfileCalled(prof, k, acc, CallMethod(PROFILE_FIELDS[k], acc.obj))

\* TextCleanup.run_profile
run_profile(prof, o) ==
    RunProfileLoop(prof, 1, [obj |-> o, calls |-> <<>>, results |-> <<>>])

\* The attributes of a TextCleanup that are callable and do not start with
\* an underscore, and the names of the model that start with one.
Callables ==
    {PROFILE_FIELDS[i] : i \in 1..Len(PROFILE_FIELDS)}
        \cup {"run_profile", "get_profile", "set_profile"}
PrivateNames == {"_validate_profile"}

\* dataclasses.asdict(profile): the fields in order, those of
\* TextCleanupProfile and then the one a subclass of the model adds.
ProfileFields(prof) ==
    IF DOMAIN prof = DOMAIN DefaultProfile THEN PROFILE_FIELDS
    ELSE Append(PROFILE_FIELDS, CHOOSE f \in DOMAIN prof : f \notin DOMAIN DefaultProfile)

\* The body of the loop of _validate_profile: the exception it raises for a
\* field, or "none".
validate_field(name, value) ==
    IF name \in PrivateNames THEN "ValueError"
    ELSE IF name \notin Callables THEN "AttributeError"
    ELSE IF value \notin PyBool THEN "TypeError"
    ELSE "none"

\* TextCleanup._validate_profile from the k-th field on: the exception of
\* the first field that has one, or "none".
RECURSIVE validate_profile_from(_, _, _)
validate_profile_from(prof, fields, k) ==
    IF k > Len(fields) THEN "none"
    ELSE IF validate_field(fields[k], prof[fields[k]]) # "none"
    THEN validate_field(fields[k], prof[fields[k]])
    ELSE validate_profile_from(prof, fields, k + 1)

\* TextCleanup._validate_profile: whether it returns without raising.
validate_profile(prof) == validate_profile_from(prof, ProfileFields(prof), 1) = "none"

----------------------------------------------------------------------------
(* TextCleanup: the state machine.                                         *)

Obj == [text |-> text, page_id |-> page_id, page_title |-> page_title]

IndexIdle ==
    /\ full_text = <<>>
    /\ pdf_first_pagenum = 0
    /\ page_spans = Uncached
    /\ cur_page = <<>>
    /\ line_spans = Uncached
    /\ ret = NoCall

\* The number of times "page-" occurs in a line.
PagePrefixes(line) ==
    Cardinality({pos \in 0..Len(line) : StartsWithAt(line, REPL_PAGEID_PREFIX, pos)})

\* The model stops rewriting a text when a line it has not seen yet would
\* hold more than MaxPagePrefixes "page-": reformat_pageid can put one more
\* before a page id at every call.
Capped(newText) ==
    \A i \in 1..Len(newText) :
        \/ \E j \in 1..Len(text) : text[j] = newText[i]
        \/ PagePrefixes(newText[i]) <= MaxPagePrefixes

\* A method that rewrites self.text and returns self.
TextMethod(name, newText) ==
    /\ Capped(newText)
    /\ text' = newText
    /\ call' = [op |-> name, value |-> "self"]
    /\ UNCHANGED <<profile, page_id, page_title>>
    /\ UNCHANGED idx_vars
    /\ UNCHANGED run_vars

Strip == TextMethod("strip", strip(text))
RemoveIgnored == TextMethod("remove_ignored", remove_ignored(text))
RemoveVolRoman == TextMethod("remove_vol_roman", remove_vol_roman(text))
ReplaceSpacetab == TextMethod("replace_spacetab", replace_spacetab(text))
ReplaceDotspace == TextMethod("replace_dotspace", replace_dotspace(text))
ReformatPageid == TextMethod("reformat_pageid", reformat_pageid(text))

Scanned(r) ==
    /\ page_id' = r.page_id
    /\ page_title' = r.page_title
    /\ call' = [op |-> "scan_page_id", value |-> <<r.page_id, r.page_title>>]
    /\ UNCHANGED <<text, profile>>
    /\ UNCHANGED idx_vars
    /\ UNCHANGED run_vars

ScanPageId == Scanned(scan_page_id(text, page_id, page_title))

ProfileRun(r) ==
    /\ Capped(r.obj.text)
    /\ text' = r.obj.text
    /\ page_id' = r.obj.page_id
    /\ page_title' = r.obj.page_title
    /\ call' = [op |-> "run_profile",
                value |-> [calls |-> r.calls, results |-> r.results]]
    /\ UNCHANGED profile
    /\ UNCHANGED idx_vars
    /\ UNCHANGED run_vars

RunProfile == ProfileRun(run_profile(profile, Obj))

\* (a variant: the profile is assigned before it is validated)
SetProfile_assign_first(prof) ==
    /\ profile' = prof
    /\ call' = [op |-> "set_profile",
                value |-> IF validate_profile(prof) THEN "self"
                          ELSE validate_profile_from(prof, ProfileFields(prof), 1)]
    /\ UNCHANGED <<text, page_id, page_title>>
    /\ UNCHANGED idx_vars
    /\ UNCHANGED run_vars

\* TextCleanup.set_profile
SetProfile(prof) ==
    /\ IF validate_profile(prof)
       THEN /\ profile' = prof
            /\ call' = [op |-> "set_profile", value |-> "self"]
       ELSE /\ profile' = profile
            /\ call' = [op |-> "set_profile",
                        value |-> validate_profile_from(prof, ProfileFields(prof), 1)]
    /\ UNCHANGED <<text, page_id, page_title>>
    /\ UNCHANGED idx_vars
    /\ UNCHANGED run_vars

----------------------------------------------------------------------------
(* TextCleanup: the inputs the model constructs it with.                   *)

\* A footer line "<title>Vol. 2<letter><gap><id>" put together from its
\* parts.
Footer(p) == p.title \o VOL_LITERAL \o <<p.letter>> \o p.gap \o p.id

\* The parts of the footer lines among the sample lines.
FooterParts ==
    { [title |-> <<"S", "o", "m", "e", " ", "T", "i", "t", "l", "e", " ">>, letter |-> "B", gap |-> <<" ">>, id |-> <<"3", "-", "4", "2">>],
      [title |-> <<"S", "o", "m", "e", " ", "T", "i", "t", "l", "e", " ">>, letter |-> "B", gap |-> <<>>, id |-> <<>>],
      [title |-> <<"C", "h", " ", "1", "-", "2", " ">>, letter |-> "A", gap |-> <<" ">>, id |-> <<>>],
      [title |-> << " " >>, letter |-> "D", gap |-> <<>>, id |-> <<"A", "-", "7">>],
      [title |-> <<"x">>, letter |-> "B", gap |-> <<" ">>, id |-> <<"3", "-", "4", "2">>],
      [title |-> <<"T", " ">>, letter |-> "C", gap |-> <<" ">>, id |-> <<"3", "-", "4", "5", "6", "7">>],
      [title |-> <<"i", "i", " ">>, letter |-> "A", gap |-> <<" ">>, id |-> <<"x", "i">>] }

\* Lines that are no footer: ignored lines, with and without padding, and
\* running text.
OtherLines == { <<>>, <<"C", "O", "N", "T", "E", "N", "T", "S">>,
                <<" ", "P", "A", "G", "E", " ">>, <<"s", "e", "e", " ", "3", "-", "4", "2">> }

SampleLines == {Footer(p) : p \in FooterParts} \cup OtherLines

\* The pieces input lines are put together from, by the pattern they try.
SpacetabTokens == { <<" ">>, <<TAB>>, <<"x">>, REPL_SPACETAB }
DotspaceTokens ==
    { <<".">>,
      <<".", " ", ".", " ", ".", " ", ".", " ", ".", " ", ".", " ", ".", " ">>,
      <<".", " ", ".", " ", ".", " ", ".", " ", ".", " ", ".", " ", ".", " ", ".", " ">> }
PageidTokens == { <<"3">>, <<"-">>, REPL_PAGEID_PREFIX }

\* The lines that are at most MaxTokens pieces of one kind.
TokenLinesOf(tokens) == {Concat(ts) : ts \in SeqsUpTo(tokens, MaxTokens)}
TokenLines ==
    TokenLinesOf(SpacetabTokens) \cup TokenLinesOf(DotspaceTokens)
        \cup TokenLinesOf(PageidTokens)

\* PdfManualExtract._TOC_PROFILE
TOC_PROFILE == DefaultProfile
\* PdfManualExtract._PAGES_PROFILE
PAGES_PROFILE ==
    [DefaultProfile EXCEPT !["strip"] = "False", !["remove_ignored"] = "False",
                           !["remove_vol_roman"] = "False",
                           !["replace_spacetab"] = "False",
                           !["replace_dotspace"] = "False"]
\* A profile with a field that holds no bool.
BadProfile == [DefaultProfile EXCEPT !["strip"] = "yes"]

\* Every profile with boolean fields.
AllProfiles == [DOMAIN DefaultProfile -> PyBool]

\* The texts run_profile is tried on under every profile: each method has a
\* line it changes or removes.
ProfileTexts ==
    { << <<" ", "P", "A", "G", "E", " ">>, <<"x", " ", " ", " ", " ">> \o <<TAB>> \o <<"y">>, <<"i", "i", " ", "V", "o", "l", ".", " ", "2", "A">>,
         <<".", " ", ".", " ", ".", " ", ".", " ", ".", " ", ".", " ", ".", " ", ".", " ", ".", " ", "3", "-", "4", "2">>, <<"S", "o", "m", "e", " ", "T", "i", "t", "l", "e", " ">> \o <<"V", "o", "l", ".", " ", "2", "B", " ", "3", "-", "4", "2">> >>,
      << <<" ", "C", "h", " ", "1", "-", "2", " ", "V", "o", "l", ".", " ", "2", "A", " ">>, <<>> >> }

\* The profiles the model passes to set_profile.
SetProfileArgs == {TOC_PROFILE, PAGES_PROFILE, BadProfile}

\* TextCleanup(text, profile), no method called yet.
Constructed(texts, profiles) ==
    /\ text \in texts
    /\ profile \in profiles
    /\ page_id = None
    /\ page_title = None
    /\ call = NoCleanupCall
    /\ IndexIdle
    /\ RunIdle

Methods ==
    \/ Strip
    \/ RemoveIgnored
    \/ ScanPageId
    \/ RemoveVolRoman
    \/ ReplaceSpacetab
    \/ ReplaceDotspace
    \/ ReformatPageid
    \/ RunProfile

\* Line lists of sample lines, cleaned by any sequence of method calls.
InitCleanup == Constructed(SeqsUpTo(SampleLines, MaxLines), {DefaultProfile})
NextCleanup == Methods
SpecCleanup == InitCleanup /\ [][NextCleanup]_vars

\* One line put together from pieces, cleaned by any sequence of method calls.
InitLine == Constructed({<<line>> : line \in TokenLines}, {DefaultProfile})
NextLine == Methods
SpecLine == InitLine /\ [][NextLine]_vars

\* A text cleaned through its profile, as PdfManualExtract does, under every
\* profile.
InitProfile == Constructed(ProfileTexts, AllProfiles)
NextProfile ==
    \/ RunProfile
    \/ ScanPageId
    \/ \E prof \in SetProfileArgs : SetProfile(prof)
SpecProfile == InitProfile /\ [][NextProfile]_vars

\* A profile that holds a value that is no bool in its last field, and
\* profiles of subclasses of TextCleanupProfile with one more field: the
\* name of a method, of no attribute, of an attribute that is no method and
\* of a private method.
LastBadProfile == [DefaultProfile EXCEPT !["reformat_pageid"] = "1"]
SubclassProfile(name, value) ==
    [f \in DOMAIN DefaultProfile \cup {name} |-> IF f = name THEN value ELSE "True"]
SubclassProfiles ==
    { SubclassProfile("run_profile", "True"), SubclassProfile("run_profile", "None"),
      SubclassProfile("dedent", "True"), SubclassProfile("text", "True"),
      SubclassProfile("_validate_profile", "True") }

\* What is passed as profile: None, a TextCleanupProfile or an object that
\* is none (kind "other").
ProfileArgs ==
    {[kind |-> "None", fields |-> DefaultProfile], [kind |-> "other", fields |-> DefaultProfile]}
        \cup {[kind |-> "profile", fields |-> prof] :
                prof \in {TOC_PROFILE, PAGES_PROFILE, BadProfile, LastBadProfile}
                            \cup SubclassProfiles}

\* The isinstance test and _validate_profile of __init__ and set_profile:
\* the exception raised for the argument a, or "none".
profile_error(a) ==
    IF a.kind = "other" THEN "TypeError"
    ELSE validate_profile_from(a.fields, ProfileFields(a.fields), 1)

\* TextCleanup.__init__(text, profile) with a list of lines: validation,
\* and only then the four attributes.
TextCleanupInit(lines, a) ==
    /\ call = NoCleanupCall
    /\ IF profile_error(a) = "none"
       THEN /\ text' = lines
            /\ profile' = a.fields
            /\ page_title' = None
            /\ page_id' = None
            /\ call' = [op |-> "__init__", value |-> "self"]
       ELSE /\ call' = [op |-> "__init__", value |-> profile_error(a)]
            /\ UNCHANGED <<text, profile, page_id, page_title>>
    /\ UNCHANGED idx_vars
    /\ UNCHANGED run_vars

\* A TextCleanup exists: __init__ was called and did not raise.
HasCleanup ==
    /\ call # NoCleanupCall
    /\ ~(call.op = "__init__" /\ call.value # "self")

\* set_profile with any argument; on an object that is no
\* TextCleanupProfile the isinstance test raises.
SetProfileArg(a) ==
    IF a.kind = "profile" THEN SetProfile(a.fields)
    ELSE /\ call' = [op |-> "set_profile", value |-> "TypeError"]
         /\ UNCHANGED <<text, profile, page_id, page_title>>
         /\ UNCHANGED idx_vars
         /\ UNCHANGED run_vars

\* A TextCleanup is constructed with any profile argument; strip,
\* scan_page_id and set_profile are called on it.
InitConstruct ==
    /\ CleanupIdle
    /\ IndexIdle
    /\ RunIdle
NextConstruct ==
    \/ \E lines \in SeqsUpTo(SampleLines, 1), a \in ProfileArgs : TextCleanupInit(lines, a)
    \/ HasCleanup /\ \E a \in ProfileArgs : SetProfileArg(a)
    \/ HasCleanup /\ ScanPageId
    \/ HasCleanup /\ Strip
SpecConstruct == InitConstruct /\ [][NextConstruct]_vars

----------------------------------------------------------------------------
(* PdfManualExtract: files, scripts and the pdftotext tool.                *)

\* The characters str.isalnum() holds for, among those of the model.
IsAlnum(c) == IsDigit(c) \/ IsUpper(c) \/ IsLower(c)

\* str(n), n >= 0
RECURSIVE Decimal(_)
Decimal(n) ==
    IF n < 10 THEN << <<"0", "1", "2", "3", "4", "5", "6", "7", "8", "9">>[n + 1] >>
    ELSE Decimal(n \div 10) \o Decimal(n % 10)

\* f"{n:0{w}d}" from s = str(n), n >= 0
RECURSIVE ZeroPad(_, _)
ZeroPad(s, w) == IF Len(s) >= w THEN s ELSE ZeroPad(<<"0">> \o s, w)

\* "\n".join(lines)
RECURSIVE JoinLines(_)
JoinLines(lines) ==
    IF lines = <<>> THEN <<>>
    ELSE IF Len(lines) = 1 THEN lines[1]
    ELSE lines[1] \o <<LF>> \o JoinLines(Tail(lines))

\* A directory's files after name is written with content, and after name
\* is removed.
WriteFile(files, name, content) ==
    [n \in DOMAIN files \cup {name} |-> IF n = name THEN content ELSE files[n]]
RemoveFile(files, name) == [n \in DOMAIN files \ {name} |-> files[n]]

\* pdftotext -layout -f first -l last <pdf> <out>: whether it exits
\* non-zero, and the lines open(out).read().splitlines() gives when it does
\* not.  It fails when it is not installed and on a page it cannot convert.
ToolFails(cmd) ==
    \/ job.config = "no_tool"
    \/ \E n \in cmd.first..cmd.last : n \in job.bad
ToolOutput(cmd) ==
    Concat([k \in 1..(cmd.last - cmd.first + 1) |-> job.pages[cmd.first + k - 1]])

\* A bash script that runs the pdftotext commands cmds, from the k-th on,
\* writing into the directory files: [files, log, failed].  stop: the
\* script runs under "bash -ex" and ends at the first command that fails.
RECURSIVE RunScript(_, _, _, _)
RunScript(cmds, k, stop, st) ==
    IF k > Len(cmds) \/ (stop /\ st.failed) THEN st
    ELSE RunScript(cmds, k + 1, stop,
            IF ToolFails(cmds[k])
            THEN [st EXCEPT !.log = Append(@, [first |-> cmds[k].first,
                                                last |-> cmds[k].last, ok |-> FALSE]),
                            !.failed = TRUE]
            ELSE [st EXCEPT !.log = Append(@, [first |-> cmds[k].first,
                                                last |-> cmds[k].last, ok |-> TRUE]),
                            !.files = WriteFile(@, cmds[k].out, ToolOutput(cmds[k]))])

\* TextCleanup(text, prof).run_profile(): the object after it.  Callers
\* check validate_profile(prof) first, as TextCleanup.__init__ does.
Cleaned(lines, prof) ==
    run_profile(prof, [text |-> lines, page_id |-> None, page_title |-> None]).obj

\* The header block of a cleaned page.
CleanpageHeader(id, title) ==
    << <<"P", "a", "g", "e", " ", "I", "D", ":", " ">> \o id, <<"P", "a", "g", "e", " ", "t", "i", "t", "l", "e", ":", " ">> \o title, <<>>, <<"-", "-", "-">>, <<>> >>

\* The 1-based page numbers of a PdfPageRange, as range(first, last + 1).
RangeSeq(first, last) == [k \in 1..(last - first + 1) |-> first + k - 1]

----------------------------------------------------------------------------
(* PdfManualExtract of _deprecated/intel_manual_extract.py: __init__ and   *)
(* run(), one action for each call run() makes.                            *)

TocProfile == IF job.config = "bad_toc_profile" THEN BadProfile ELSE TOC_PROFILE
PagesProfile == IF job.config = "bad_pages_profile" THEN BadProfile ELSE PAGES_PROFILE

\* The four tempfile.TemporaryDirectory() of __init__, empty.
TempDirs == [d \in {"src", "bin", "txt", "out"} |-> NoFiles]

\* temp with the files of directory d replaced
TempWith(d, files) == [temp EXCEPT ![d] = files]

\* A call of run() returned: the next one is due.
Returned(name) ==
    /\ step' = name
    /\ raised' = "none"

\* (a variant: the directories are not deleted when a call raises)
Raised_without_cleanup(exc) ==
    /\ step' = "failed"
    /\ raised' = exc
    /\ temp' = temp

\* (a variant: the failed call is tried again)
Raised_and_retried(exc) ==
    /\ step' = step
    /\ raised' = exc
    /\ temp' = temp

\* A call of run() raised exc: the with statement deletes the four
\* directories and the exception reaches the caller of run().
Raised(exc) ==
    /\ step' = "failed"
    /\ raised' = exc
    /\ temp' = NoFiles

\* PdfManualExtract.__init__
Construct ==
    /\ step = "new"
    /\ IF job.config = "no_pdf"
       THEN /\ step' = "failed" /\ raised' = "FileNotFoundError" /\ temp' = temp
       ELSE IF job.config = "no_dir"
       THEN /\ step' = "failed" /\ raised' = "NotADirectoryError" /\ temp' = temp
       ELSE /\ Returned("init") /\ temp' = TempDirs
    /\ UNCHANGED <<job, data_dir, spawned, lists, ball>>
    /\ UNCHANGED <<idx_vars, cln_vars>>

\* self._copy_pdf(self._pdf_path, pdf_copy_path)
CopyPdf ==
    /\ step = "init"
    /\ Returned("copy_pdf")
    /\ temp' = TempWith("src", WriteFile(temp["src"], <<"i", "n", "p", "u", "t", ".", "p", "d", "f">>, job.pages))
    /\ UNCHANGED <<job, data_dir, spawned, lists, ball>>
    /\ UNCHANGED <<idx_vars, cln_vars>>

\* self._create_toc_bash(...): the script as the commands it holds
CreateTocBash ==
    /\ step = "copy_pdf"
    /\ Returned("create_toc_bash")
    /\ temp' = TempWith("bin", WriteFile(temp["bin"], <<"t", "o", "c", ".", "s", "h">>,
                   << [first |-> job.toc_range[1], last |-> job.toc_range[2],
                       out |-> <<"t", "o", "c", ".", "t", "x", "t">>] >>))
    /\ UNCHANGED <<job, data_dir, spawned, lists, ball>>
    /\ UNCHANGED <<idx_vars, cln_vars>>

\* subprocess.run(script, shell=True, check=True) on a "#!/bin/bash -ex"
\* script, r being what the script did.
ScriptRan(name, r) ==
    /\ spawned' = r.log
    /\ IF r.failed THEN Raised("CalledProcessError")
       ELSE /\ Returned(name) /\ temp' = TempWith("txt", r.files)
    /\ UNCHANGED <<job, data_dir, lists, ball>>
    /\ UNCHANGED <<idx_vars, cln_vars>>

\* self._run_toc_bash(toc_bash_path)
RunTocBash ==
    /\ step = "create_toc_bash"
    /\ ScriptRan("run_toc_bash",
                 RunScript(temp["bin"][<<"t", "o", "c", ".", "s", "h">>], 1, TRUE,
                           [files |-> temp["txt"], log |-> spawned, failed |-> FALSE]))

\* self._clean_toc(toc_dirty_path, toc_clean_path)
CleanToc ==
    /\ step = "run_toc_bash"
    /\ IF ~validate_profile(TocProfile) THEN Raised("TypeError")
       ELSE /\ Returned("clean_toc")
            /\ temp' = TempWith("txt", WriteFile(temp["txt"], <<"t", "o", "c", "_", "c", "l", "e", "a", "n", ".", "t", "x", "t">>,
                           JoinLines(Cleaned(temp["txt"][<<"t", "o", "c", ".", "t", "x", "t">>], TocProfile).text)))
    /\ UNCHANGED <<job, data_dir, spawned, lists, ball>>
    /\ UNCHANGED <<idx_vars, cln_vars>>

\* f"page_{pdf_pagenum:05d}.txt"
DirtyName(n) == <<"p", "a", "g", "e", "_">> \o ZeroPad(Decimal(n), 5) \o <<".", "t", "x", "t">>

\* The DirtyPage objects and the script of _create_pages_bash for the pages
\* nums.
DirtyPages(nums) ==
    [k \in 1..Len(nums) |-> [pdf_pagenum |-> nums[k], dirty_filename |-> DirtyName(nums[k])]]
PagesScript(nums) ==
    [k \in 1..Len(nums) |-> [first |-> nums[k], last |-> nums[k], out |-> DirtyName(nums[k])]]

\* self._create_pages_bash(...)
CreatePagesBash ==
    /\ step = "clean_toc"
    /\ Returned("create_pages_bash")
    /\ lists' = [lists EXCEPT !.dirty_pages =
                    DirtyPages(RangeSeq(job.page_range[1], job.page_range[2]))]
    /\ temp' = TempWith("bin", WriteFile(temp["bin"], <<"p", "a", "g", "e", "s", ".", "s", "h">>,
                   PagesScript(RangeSeq(job.page_range[1], job.page_range[2]))))
    /\ UNCHANGED <<job, data_dir, spawned, ball>>
    /\ UNCHANGED <<idx_vars, cln_vars>>

\* self._run_pages_bash(pages_bash_path)
RunPagesBash ==
    /\ step = "create_pages_bash"
    /\ ScriptRan("run_pages_bash",
                 RunScript(temp["bin"][<<"p", "a", "g", "e", "s", ".", "s", "h">>], 1, TRUE,
                           [files |-> temp["txt"], log |-> spawned, failed |-> FALSE]))

\* (a variant: the other characters are left out, not replaced)
fs_safe_str_dropping(s) ==
    IF s = <<>> \/ s = None THEN <<"_">>
    ELSE SelectSeq(s, LAMBDA c : IsAlnum(c) \/ c \in {"-", "_"})

\* PdfManualExtract._fs_safe_str
fs_safe_str(s) ==
    IF s = <<>> \/ s = None THEN <<"_">>
    ELSE [k \in 1..Len(s) |-> IF IsAlnum(s[k]) \/ s[k] \in {"-", "_"} THEN s[k] ELSE "_"]

\* page_id and page_title of _clean_pages for page n, c being the cleaned
\* TextCleanup: the fallbacks, then _fs_safe_str.
CleanPageId(n, c) ==
    fs_safe_str(IF c.page_id = None THEN ZeroPad(Decimal(n), 5) ELSE c.page_id)
CleanPageTitle(n, c) ==
    IF c.page_title = None THEN <<"P", "a", "g", "e", " ">> \o Decimal(n) ELSE c.page_title

\* The CleanedPage of _clean_pages for page n from its id, title and lines.
CleanedPage(n, id, title, lines, dirty) ==
    [pdf_pagenum |-> n, page_id |-> id, page_title |-> title,
     header |-> CleanpageHeader(id, title), text |-> lines,
     dirty_filename |-> dirty,
     clean_filename |-> <<"c", "l", "e", "a", "n", "_">> \o ZeroPad(Decimal(n), 5) \o <<"_">> \o id \o <<".", "t", "x", "t">>]

\* One turn of the loop of _clean_pages: the files of temp_txt and
\* clean_pages after the CleanedPage p is written and appended.
CleanPageDone(st, p) ==
    [files |-> WriteFile(st.files, p.clean_filename, JoinLines(p.header \o p.text)),
     clean_pages |-> Append(st.clean_pages, p)]

CleanOnePage(st, n, dirty, c) ==
    CleanPageDone(st, CleanedPage(n, CleanPageId(n, c), CleanPageTitle(n, c), c.text, dirty))

\* The loop of _clean_pages from the k-th DirtyPage on.
RECURSIVE CleanPagesLoop(_, _, _)
CleanPagesLoop(dirty, k, st) ==
    IF k > Len(dirty) THEN st
    ELSE CleanPagesLoop(dirty, k + 1,
            CleanOnePage(st, dirty[k].pdf_pagenum, dirty[k].dirty_filename,
                         Cleaned(st.files[dirty[k].dirty_filename], PagesProfile)))

CleanPagesDone(st) ==
    /\ Returned("clean_pages")
    /\ temp' = TempWith("txt", st.files)
    /\ lists' = [lists EXCEPT !.clean_pages = st.clean_pages]

\* self._clean_pages(dirty_pages, temp_txt, clean_pages)
CleanPages ==
    /\ step = "run_pages_bash"
    /\ IF lists.dirty_pages # <<>> /\ ~validate_profile(PagesProfile)
       THEN Raised("TypeError") /\ lists' = lists
       ELSE CleanPagesDone(CleanPagesLoop(lists.dirty_pages, 1,
                [files |-> temp["txt"], clean_pages |-> lists.clean_pages]))
    /\ UNCHANGED <<job, data_dir, spawned, ball>>
    /\ UNCHANGED <<idx_vars, cln_vars>>

\* self._extract_intrinsics(clean_pages): it prints, and changes nothing.
ExtractIntrinsics ==
    /\ step = "clean_pages"
    /\ Returned("extract_intrinsics")
    /\ UNCHANGED <<job, data_dir, temp, spawned, lists, ball>>
    /\ UNCHANGED <<idx_vars, cln_vars>>

\* files without the files of the k-th page on, name(p) being the file of
\* page p
RECURSIVE RemoveDirty(_, _, _)
RemoveDirty(files, dirty, k) ==
    IF k > Len(dirty) THEN files
    ELSE RemoveDirty(RemoveFile(files, dirty[k].dirty_filename), dirty, k + 1)

\* self._remove_dirty_files(toc_dirty_path, dirty_pages)
RemoveDirtyFiles ==
    /\ step = "extract_intrinsics"
    /\ Returned("remove_dirty_files")
    /\ temp' = TempWith("txt",
                   RemoveDirty(RemoveFile(temp["txt"], <<"t", "o", "c", ".", "t", "x", "t">>), lists.dirty_pages, 1))
    /\ UNCHANGED <<job, data_dir, spawned, lists, ball>>
    /\ UNCHANGED <<idx_vars, cln_vars>>

\* f"{pdf_pagenum}_{page_id}.txt"
FinalName(p) == Decimal(p.pdf_pagenum) \o <<"_">> \o p.page_id \o <<".", "t", "x", "t">>

\* The loop of _move_clean_files from the k-th CleanedPage on: [src, dst],
\* the files of temp_txt and of data_dir.
RECURSIVE MoveClean(_, _, _)
MoveClean(clean, k, st) ==
    IF k > Len(clean) THEN st
    ELSE MoveClean(clean, k + 1,
            [src |-> RemoveFile(st.src, clean[k].clean_filename),
             dst |-> WriteFile(st.dst, FinalName(clean[k]), st.src[clean[k].clean_filename])])

FilesMoved(st) ==
    /\ temp' = TempWith("txt", st.src)
    /\ data_dir' = st.dst

\* self._move_clean_files(toc_clean_path, clean_pages, self._data_dir)
MoveCleanFiles ==
    /\ step = "remove_dirty_files"
    /\ Returned("move_clean_files")
    /\ FilesMoved(MoveClean(lists.clean_pages, 1,
            [src |-> RemoveFile(temp["txt"], <<"t", "o", "c", "_", "c", "l", "e", "a", "n", ".", "t", "x", "t">>),
             dst |-> WriteFile(data_dir, <<"t", "o", "c", ".", "t", "x", "t">>, temp["txt"][<<"t", "o", "c", "_", "c", "l", "e", "a", "n", ".", "t", "x", "t">>])]))
    /\ UNCHANGED <<job, spawned, lists, ball>>
    /\ UNCHANGED <<idx_vars, cln_vars>>

\* The with statement of run() is left: the four directories are deleted.
ExitRun ==
    /\ step = "move_clean_files"
    /\ Returned("done")
    /\ temp' = NoFiles
    /\ UNCHANGED <<job, data_dir, spawned, lists, ball>>
    /\ UNCHANGED <<idx_vars, cln_vars>>

----------------------------------------------------------------------------
(* PdfManualExtract: the jobs the model runs.                              *)

\* What open(page).read().splitlines() gives for the pages of the PDF: a
\* page with a footer, a page whose footer has the same id, a page without.
PageTexts ==
    { << <<"b", "o", "d", "y">>, <<"F", "o", "o", " ", "B", "a", "r", " ", "V", "o", "l", ".", " ", "2", "A", " ", "B", "-", "7">> >>,
      << <<"B", "a", "z", " ", "V", "o", "l", ".", " ", "2", "B", " ", "B", "-", "7">> >>,
      << <<"x">> >> }

Configs == {"ok", "no_pdf", "no_dir", "no_tool", "bad_toc_profile", "bad_pages_profile"}

\* Jobs on a PDF of MaxPages pages whose first page is the table of
\* contents: any configuration with a PDF that converts, and the good
\* configuration with a page that pdftotext fails on.
Jobs ==
    { [config |-> c, bad |-> b, pages |-> p,
       toc_range |-> <<1, 1>>, page_range |-> <<1, MaxPages>>] :
          c \in Configs, b \in {{}} \cup {{n} : n \in 1..MaxPages},
          p \in [1..MaxPages -> PageTexts] }

GoodJobs == {j \in Jobs : j.config = "ok" \/ j.bad = {}}

\* A job, and no PdfManualExtract yet.
InitRun ==
    /\ job \in GoodJobs
    /\ step = "new"
    /\ data_dir = NoFiles
    /\ temp = NoFiles
    /\ spawned = <<>>
    /\ raised = "none"
    /\ lists = NoLists
    /\ ball = <<>>
    /\ IndexIdle
    /\ CleanupIdle

NextRun ==
    \/ Construct
    \/ CopyPdf
    \/ CreateTocBash
    \/ RunTocBash
    \/ CleanToc
    \/ CreatePagesBash
    \/ RunPagesBash
    \/ CleanPages
    \/ ExtractIntrinsics
    \/ RemoveDirtyFiles
    \/ MoveCleanFiles
    \/ ExitRun

SpecRun == InitRun /\ [][NextRun]_vars

----------------------------------------------------------------------------
(* PdfManualExtract of intel_manual_extract.py (the class the package      *)
(* exports): __init__ and the four methods a caller runs, one action each. *)
(* lists is [pdfpage_filenames, called]: self._pdfpage_filenames as a      *)
(* sequence of none (None) or one list, and the methods called so far.     *)

NewExtract == [pdfpage_filenames |-> <<>>, called |-> {}]

\* A method of the object is called once, after __init__ returned.
Callable(name) ==
    /\ step \notin {"new", "failed"}
    /\ name \notin lists.called

\* The method name ended, with exception exc or with "none".
Ended(name, exc) ==
    /\ step' = name
    /\ raised' = exc

\* PdfManualExtract.__init__
PdfManualExtractInit ==
    /\ step = "new"
    /\ IF job.config = "no_pdf" THEN /\ step' = "failed" /\ raised' = "FileNotFoundError"
       ELSE IF job.config = "no_dir" THEN /\ step' = "failed" /\ raised' = "NotADirectoryError"
       ELSE Ended("init", "none")
    /\ UNCHANGED <<job, data_dir, temp, spawned, lists, ball>>
    /\ UNCHANGED <<idx_vars, cln_vars>>

\* subprocess.run(["bash", bashfile.name]) inside the two with statements:
\* bash reads the script as a file, so the "-ex" of its first line is a
\* comment and every command runs; the exit status is not looked at.  The
\* temporary directory and the script are gone when the method returns.
BashRan(name, r) ==
    /\ Ended(name, "none")
    /\ spawned' = r.log
    /\ data_dir' = r.files
    /\ UNCHANGED <<job, temp, ball>>
    /\ UNCHANGED <<idx_vars, cln_vars>>

\* PdfManualExtract._run_toc_bash
run_toc_bash ==
    /\ Callable("run_toc_bash")
    /\ BashRan("run_toc_bash",
               RunScript(<< [first |-> job.toc_range[1], last |-> job.toc_range[2],
                             out |-> <<"t", "o", "c", ".", "t", "x", "t">>] >>, 1, FALSE,
                         [files |-> data_dir, log |-> spawned, failed |-> FALSE]))
    /\ lists' = [lists EXCEPT !.called = @ \cup {"run_toc_bash"}]

\* PdfManualExtract._run_toc_clean
run_toc_clean ==
    /\ Callable("run_toc_clean")
    /\ IF <<"t", "o", "c", ".", "t", "x", "t">> \notin DOMAIN data_dir
       THEN Ended("run_toc_clean", "FileNotFoundError") /\ data_dir' = data_dir
       ELSE IF ~validate_profile(TocProfile)
       THEN Ended("run_toc_clean", "TypeError") /\ data_dir' = data_dir
       ELSE /\ Ended("run_toc_clean", "none")
            /\ data_dir' = WriteFile(data_dir, <<"t", "o", "c", "_", "c", "l", "e", "a", "n", ".", "t", "x", "t">>,
                               JoinLines(Cleaned(data_dir[<<"t", "o", "c", ".", "t", "x", "t">>], TocProfile).text))
    /\ lists' = [lists EXCEPT !.called = @ \cup {"run_toc_clean"}]
    /\ UNCHANGED <<job, temp, spawned, ball>>
    /\ UNCHANGED <<idx_vars, cln_vars>>

\* f"page_{pdf_pagenum:04d}.txt"
PdfpageName(n) == <<"p", "a", "g", "e", "_">> \o ZeroPad(Decimal(n), 4) \o <<".", "t", "x", "t">>

\* pdfpage_filenames and the commands of the script of _run_pages_bash for
\* the pages nums = range(toc_range.last + 1, page_range.last + 1).
PdfpageFilenames(nums) == [k \in 1..Len(nums) |-> PdfpageName(nums[k])]
PdfpageScript(nums) ==
    [k \in 1..Len(nums) |-> [first |-> nums[k], last |-> nums[k], out |-> PdfpageName(nums[k])]]

\* PdfManualExtract._run_pages_bash
run_pages_bash ==
    /\ Callable("run_pages_bash")
    /\ BashRan("run_pages_bash",
               RunScript(PdfpageScript(RangeSeq(job.toc_range[2] + 1, job.page_range[2])),
                         1, FALSE,
                         [files |-> data_dir, log |-> spawned, failed |-> FALSE]))
    /\ lists' = [lists EXCEPT
                    !.pdfpage_filenames =
                        << PdfpageFilenames(RangeSeq(job.toc_range[2] + 1, job.page_range[2])) >>,
                    !.called = @ \cup {"run_pages_bash"}]

\* f"clean_{cleanup.page_id}.txt"
CleanpageName(id) == <<"c", "l", "e", "a", "n", "_">> \o id \o <<".", "t", "x", "t">>

\* One turn of the loop of _run_pages_clean, c being the TextCleanup after
\* run_profile(): [files, raised].
CleanpageWritten(st, c) ==
    IF c.page_id = None THEN [st EXCEPT !.raised = "ValueError"]
    ELSE [st EXCEPT !.files = WriteFile(@, CleanpageName(c.page_id),
                        JoinLines(CleanpageHeader(c.page_id, c.page_title) \o c.text))]

\* The loop of _run_pages_clean from the k-th file name on; an exception
\* ends it.
RECURSIVE CleanpagesLoop(_, _, _)
CleanpagesLoop(names, k, st) ==
    IF k > Len(names) \/ st.raised # "none" THEN st
    ELSE CleanpagesLoop(names, k + 1,
            IF names[k] \notin DOMAIN st.files THEN [st EXCEPT !.raised = "FileNotFoundError"]
            ELSE IF ~validate_profile(PagesProfile) THEN [st EXCEPT !.raised = "TypeError"]
            ELSE CleanpageWritten(st, Cleaned(st.files[names[k]], PagesProfile)))

CleanpagesEnded(st) ==
    /\ Ended("run_pages_clean", st.raised)
    /\ data_dir' = st.files

\* PdfManualExtract._run_pages_clean
run_pages_clean ==
    /\ Callable("run_pages_clean")
    /\ IF lists.pdfpage_filenames = <<>>
       THEN Ended("run_pages_clean", "TypeError") /\ data_dir' = data_dir
       ELSE CleanpagesEnded(CleanpagesLoop(lists.pdfpage_filenames[1], 1,
                                           [files |-> data_dir, raised |-> "none"]))
    /\ lists' = [lists EXCEPT !.called = @ \cup {"run_pages_clean"}]
    /\ UNCHANGED <<job, temp, spawned, ball>>
    /\ UNCHANGED <<idx_vars, cln_vars>>

\* A job, an empty output directory, and no PdfManualExtract yet.
InitExtract ==
    /\ job \in GoodJobs
    /\ step = "new"
    /\ data_dir = NoFiles
    /\ temp = NoFiles
    /\ spawned = <<>>
    /\ raised = "none"
    /\ lists = NewExtract
    /\ ball = <<>>
    /\ IndexIdle
    /\ CleanupIdle

NextExtract ==
    \/ PdfManualExtractInit
    \/ run_toc_bash
    \/ run_toc_clean
    \/ run_pages_bash
    \/ run_pages_clean

SpecExtract == InitExtract /\ [][NextExtract]_vars

----------------------------------------------------------------------------
(* Properties of the page index.                                           *)

\* The characters the page-break pattern matches.
PageBreakChars == {FF, SUB, NUL, ETX, EOT}
\* k: the number of page-break characters in s.
CountPageBreaks(s) == Cardinality({i \in 1..Len(s) : s[i] \in PageBreakChars})

\* page 0, delimiter 1, page 1, ..., delimiter k, page k, as __getitem__
\* yields the pages and as the text between two neighbouring pages.
RECURSIVE Reassemble(_, _, _, _)
Reassemble(txt, spans, first, i) ==
    IF i >= Len(spans) THEN <<>>
    ELSE (IF i = 0 THEN <<>> ELSE Slice(txt, spans[i][2], spans[i + 1][1]))
         \o PageAt(txt, spans, first, i, TupleIndex(Len(spans), i)).page_text
         \o Reassemble(txt, spans, first, i + 1)

\* C1: a non-empty text with k page-break characters has exactly k+1 pages
\* (as page_spans holds them and as __len__ reports them); page 0,
\* delimiter 1, page 1, ..., delimiter k, page k put together in index order
\* are full_text; each delimiter is one page-break character; and with k = 0
\* the only page is the whole text.
C1_PagesReassemble ==
    (page_spans.cached /\ full_text # <<>>) =>
        LET spans == page_spans.value
            k == CountPageBreaks(full_text)
        IN  /\ Len(spans) = k + 1
            /\ (ret.op = "seq_len" => ret.value = k + 1)
            /\ Reassemble(full_text, spans, pdf_first_pagenum, 0) = full_text
            /\ \A i \in 1..k :
                  /\ spans[i + 1][1] = spans[i][2] + 1
                  /\ full_text[spans[i][2] + 1] \in PageBreakChars
            /\ ((k = 0 /\ ret.op = "seq_getitem" /\ ret.arg = 0)
                    => ret.value.page_text = full_text)

\* C1 witness: __len__ has reported 3 pages for a text with two page breaks.
C1_Witness ==
    /\ page_spans.cached
    /\ CountPageBreaks(full_text) = 2
    /\ ret.op = "seq_len"
    /\ ret.value = 3

\* C2: __getitem__(i) of PdfPageSequence and of PdfPageText raises IndexError
\* for every i outside [0, count), negative i included.
C2_IndexErrorOutsideRange ==
    /\ ret.op = "seq_getitem"
         => (~(0 <= ret.arg /\ ret.arg < Len(get_page_spans(full_text)))
                => ret.status = "IndexError")
    /\ ret.op = "page_getitem"
         => (~(0 <= ret.arg /\ ret.arg < Len(get_line_spans(cur_page[1].page_text)))
                => ret.status = "IndexError")

\* C3: len(PdfPageSequence) is the number of content spans of the page-break
\* scan, and is 0 when full_text is empty.
C3_PageCount ==
    ret.op = "seq_len" =>
        /\ ret.value = Len(get_page_spans(full_text))
        /\ (full_text = <<>> => ret.value = 0)

----------------------------------------------------------------------------
(* Properties of TextCleanup.                                              *)

\* An object no scan has filled yet.
Fresh == ~Truthy(page_id) /\ ~Truthy(page_title)

\* One character of [1-9A-Z], a hyphen and 1 to 3 digits.
IsPageIdToken(t) ==
    /\ Len(t) \in 3..5
    /\ IsIdLead(t[1])
    /\ t[2] = "-"
    /\ \A k \in 3..Len(t) : IsDigit(t[k])

\* What follows "Vol. 2x" when the title is the first n characters of line.
FooterRest(line, n) == str_lstrip(Slice(line, n + Len(VOL_LITERAL) + 1, Len(line)))

\* The lengths n of a title such that line is "<title>Vol. 2[A-D] [<id>]":
\* a non-empty title, "Vol." starting a word, a volume letter, then nothing
\* but an optional id after optional whitespace.
FooterTitleLens(line) ==
    {n \in 1..Len(line) :
        /\ AtWordBoundary(line, n)
        /\ StartsWithAt(line, VOL_LITERAL, n)
        /\ n + Len(VOL_LITERAL) < Len(line)
        /\ IsVolLetter(line[n + Len(VOL_LITERAL) + 1])
        /\ (FooterRest(line, n) = <<>> \/ IsPageIdToken(FooterRest(line, n)))}

IsFooter(line) == FooterTitleLens(line) # {}

\* i is the bottom-most line of lines that has the form of a footer.
BottomFooter(lines, i) ==
    /\ IsFooter(lines[i])
    /\ \A j \in (i + 1)..Len(lines) : ~IsFooter(lines[j])

\* C4: when the bottom-most line of the form "<title> Vol. 2[A-D] <id>" has
\* an id (one character of [1-9A-Z], a hyphen, 1 to 3 digits), scan_page_id
\* on an object not yet scanned returns and stores page_id = "page-" + <id>
\* and page_title = <title> with the surrounding whitespace removed.
C4_ScanFindsFooterId ==
    [][(call'.op = "scan_page_id" /\ Fresh) =>
        \A i \in 1..Len(text) : \A n \in FooterTitleLens(text[i]) :
            (BottomFooter(text, i) /\ FooterRest(text[i], n) # <<>>) =>
                /\ page_id' = <<"p", "a", "g", "e", "-">> \o FooterRest(text[i], n)
                /\ page_title' = str_strip(Slice(text[i], 0, n))
                /\ call'.value = <<page_id', page_title'>>]_vars

\* C4 witness: a scan has found ("page-3-42", "Some Title") in
\* "Some Title Vol. 2B 3-42", which another line follows.
C4_Witness ==
    /\ call.op = "scan_page_id"
    /\ Len(text) = 2
    /\ text[1] = <<"S", "o", "m", "e", " ", "T", "i", "t", "l", "e", " ",
                   "V", "o", "l", ".", " ", "2", "B", " ", "3", "-", "4", "2">>
    /\ ~IsFooter(text[2])
    /\ page_id = <<"p", "a", "g", "e", "-", "3", "-", "4", "2">>
    /\ page_title = <<"S", "o", "m", "e", " ", "T", "i", "t", "l", "e">>
    /\ call.value = <<page_id, page_title>>

\* What a scan of a not yet scanned object finds in these lines.
FreshScan(lines) == scan_page_id(lines, None, None)

\* The line alone gives a scan a page id.
YieldsId(line) == FreshScan(<<line>>).page_id # None

\* i is the bottom-most line of lines that gives a scan a page id.
BottomYield(lines, i) ==
    /\ YieldsId(lines[i])
    /\ \A j \in (i + 1)..Len(lines) : ~YieldsId(lines[j])

\* C5 as stated: scan_page_id goes from the last line towards the first and
\* stops at the first line of the form "<title> Vol. 2[A-D] [<page-id>]",
\* whether or not that line yields a page id: the result is the one the
\* lines from that line on give, the lines above it left out.
C5_StopsAtFirstMatch ==
    [][(call'.op = "scan_page_id" /\ Fresh) =>
        \A i \in 1..Len(text) :
            BottomFooter(text, i) =>
                /\ page_id' = FreshScan(SubSeq(text, i, Len(text))).page_id
                /\ page_title' = FreshScan(SubSeq(text, i, Len(text))).page_title]_vars

\* C5 amended: scan_page_id goes from the last line towards the first and
\* stops at the first line that matches the pattern and yields a page id:
\* the result is the one that line gives alone, whatever the lines above
\* and below it are, and page_id and page_title stay None when no line
\* yields a page id.
C5_StopsAtFirstId ==
    [][(call'.op = "scan_page_id" /\ Fresh) =>
        /\ \A i \in 1..Len(text) :
              BottomYield(text, i) =>
                  /\ page_id' = FreshScan(<<text[i]>>).page_id
                  /\ page_title' = FreshScan(<<text[i]>>).page_title
        /\ (\A i \in 1..Len(text) : ~YieldsId(text[i])) =>
                  /\ page_id' = None
                  /\ page_title' = None]_vars

\* C5 witness: a scan of two lines that each yield a page id, a different
\* one, has stored the one of the last line.
C5_Witness ==
    /\ call.op = "scan_page_id"
    /\ Len(text) = 2
    /\ YieldsId(text[1])
    /\ YieldsId(text[2])
    /\ FreshScan(<<text[1]>>).page_id # FreshScan(<<text[2]>>).page_id
    /\ page_id = FreshScan(<<text[2]>>).page_id
    /\ page_title = FreshScan(<<text[2]>>).page_title

\* The operations in the order of the claim.
C6_Order ==
    <<"strip", "remove_ignored", "scan_page_id", "remove_vol_roman",
      "replace_spacetab", "replace_dotspace", "reformat_pageid">>

\* The object after the operations from the k-th on, each applied once if
\* its field is true and not at all if it is false.
RECURSIVE C6_Apply(_, _, _)
C6_Apply(prof, k, o) ==
    IF k > Len(C6_Order) THEN o
    ELSE C6_Apply(prof, k + 1,
                  IF prof[C6_Order[k]] = "True" THEN CallMethod(C6_Order[k], o)
                  ELSE o)

C6_Enabled(prof) == SelectSeq(C6_Order, LAMBDA f : prof[f] = "True")

C6_StripOnly(prof) == \A k \in 1..Len(C6_Order) :
                          prof[C6_Order[k]] = "True" <=> C6_Order[k] = "strip"

\* C6: under every profile run_profile calls exactly the operations whose
\* field is true, each once, in the order strip, remove_ignored,
\* scan_page_id, remove_vol_roman, replace_spacetab, replace_dotspace,
\* reformat_pageid, and the text, page_id and page_title it leaves are those
\* of applying just these; with only strip enabled it trims every line and
\* leaves page_id and page_title as they were.
C6_RunProfileOrder ==
    [][call'.op = "run_profile" =>
        /\ call'.value.calls = C6_Enabled(profile)
        /\ text' = C6_Apply(profile, 1, Obj).text
        /\ page_id' = C6_Apply(profile, 1, Obj).page_id
        /\ page_title' = C6_Apply(profile, 1, Obj).page_title
        /\ C6_StripOnly(profile) =>
              /\ text' = [k \in 1..Len(text) |-> str_strip(text[k])]
              /\ page_id' = page_id
              /\ page_title' = page_title]_vars

\* C6 witness: run_profile has run with only strip enabled on a text whose
\* last line is a footer: the lines are trimmed, the blank line is still
\* there and page_id and page_title are unset.
C6_Witness ==
    /\ call.op = "run_profile"
    /\ C6_StripOnly(profile)
    /\ call.value.calls = <<"strip">>
    /\ text = << <<"C", "h", " ", "1", "-", "2", " ", "V", "o", "l", ".", " ", "2", "A">>,
                 <<>> >>
    /\ page_id = None
    /\ page_title = None

\* C7: reformat_pageid is idempotent: the line list a call of
\* reformat_pageid leaves is the one a second call leaves.
C7_ReformatPageidIdempotent ==
    call.op = "reformat_pageid" => reformat_pageid(text) = text

\* C8: replace_spacetab is idempotent: the line list a call of
\* replace_spacetab leaves is the one a second call leaves.
C8_ReplaceSpacetabIdempotent ==
    call.op = "replace_spacetab" => replace_spacetab(text) = text

\* C9: replace_dotspace is idempotent: the line list a call of
\* replace_dotspace leaves is the one a second call leaves.
C9_ReplaceDotspaceIdempotent ==
    call.op = "replace_dotspace" => replace_dotspace(text) = text

\* C10: strip and remove_ignored are idempotent: the line list a call leaves
\* is the one a second call of the same operation leaves, and after
\* remove_ignored no line is "", "CONTENTS" or "PAGE".
C10_StripRemoveIgnoredIdempotent ==
    /\ call.op = "strip" => strip(text) = text
    /\ call.op = "remove_ignored" =>
          /\ remove_ignored(text) = text
          /\ \A i \in 1..Len(text) :
                text[i] \notin { <<>>,
                                 <<"C", "O", "N", "T", "E", "N", "T", "S">>,
                                 <<"P", "A", "G", "E">> }

\* C10 witness: remove_ignored has run on a text that held lines to ignore
\* next to a footer, and has left the footer only.
C10_Witness ==
    /\ call.op = "remove_ignored"
    /\ Len(text) = 1
    /\ IsFooter(text[1])

\* C11: once scan_page_id has set page_id and page_title, every later call
\* of scan_page_id returns that pair, and no cleanup operation (strip,
\* remove_ignored, remove_vol_roman, replace_spacetab, replace_dotspace,
\* reformat_pageid, run_profile) changes page_id or page_title, whatever
\* the line list has become.
C11_ScanResultKept ==
    [][page_id # None =>
        /\ page_title # None
        /\ page_id' = page_id
        /\ page_title' = page_title
        /\ (call'.op = "scan_page_id" => call'.value = <<page_id, page_title>>)]_vars

\* C11 witness: scan_page_id has returned the pair an earlier scan stored,
\* on lines that would give a new scan another result.
C11_Witness ==
    /\ call.op = "scan_page_id"
    /\ page_id # None
    /\ call.value = <<page_id, page_title>>
    /\ FreshScan(text).page_id # page_id

----------------------------------------------------------------------------
(* Properties of PdfManualExtract.                                         *)

\* The body pages of a job for intel_manual_extract.py: those after the
\* table of contents.
BodyPages == (job.toc_range[2] + 1)..job.page_range[2]

\* Whether content is the output for body page n: the header with the id and
\* the title cleanup discovers on the page, or the zero-padded page number
\* and "Page <n>" where it discovers none, and then the cleaned lines.
OutputOfPage(content, n, c) ==
    \E w \in 1..5 :
        content = JoinLines(
            CleanpageHeader(IF c.page_id = None THEN ZeroPad(Decimal(n), w) ELSE c.page_id,
                            IF c.page_title = None THEN <<"P", "a", "g", "e", " ">> \o Decimal(n) ELSE c.page_title)
            \o c.text)

HasOutput(n) ==
    \E f \in DOMAIN data_dir : OutputOfPage(data_dir[f], n, Cleaned(job.pages[n], PAGES_PROFILE))

\* C12: a page without a page identifier or title is never an error: once
\* every body page is extracted, _run_pages_clean ends without an exception
\* and leaves an output for every body page, with the zero-padded page
\* number as identifier and "Page <n>" as title where none is discovered.
C12_OutputForEveryPage ==
    (/\ step = "run_pages_clean"
     /\ lists.pdfpage_filenames # <<>>
     /\ job.config = "ok"
     /\ job.bad = {})
    => /\ raised = "none"
       /\ \A n \in BodyPages : HasOutput(n)

\* The pdftotext invocations made for exactly the page n, and the cleaned
\* page files of the output directory.
InvocationsOf(n) == {k \in 1..Len(spawned) : spawned[k].first = n /\ spawned[k].last = n}
CleanpageFiles == {f \in DOMAIN data_dir : Len(f) >= 6 /\ SubSeq(f, 1, 6) = <<"c", "l", "e", "a", "n", "_">>}

\* C13: body pages and outputs correspond one to one: after
\* _run_pages_bash and a _run_pages_clean that ended without an exception,
\* every body page had exactly one pdftotext invocation, for that page
\* alone, and there are as many cleaned page files as body pages, so no two
\* pages share a file name, also when they carry the same page identifier.
C13_OneOutputPerPage ==
    (step = "run_pages_clean" /\ raised = "none")
    => /\ \A n \in BodyPages : Cardinality(InvocationsOf(n)) = 1
       /\ \A k \in 1..Len(spawned) :
              spawned[k].last \in BodyPages => spawned[k].first = spawned[k].last
       /\ Cardinality(CleanpageFiles) = Cardinality(BodyPages)

\* Whether the string sub occurs in the string s.
Occurs(sub, s) == \E i \in 1..(Len(s) - Len(sub) + 1) : SubSeq(s, i, i + Len(sub) - 1) = sub

\* Whether the output directory holds the output of page n, c being the
\* cleaned page: a file whose name holds the page number and the page
\* identifier and whose content is the header and the cleaned lines.
NamedOutput(n, c) ==
    \E f \in DOMAIN data_dir :
        /\ Occurs(Decimal(n), f)
        /\ Occurs(c.page_id, f)
        /\ data_dir[f] = JoinLines(CleanpageHeader(c.page_id, c.page_title) \o c.text)

\* C14: for a body page n whose footer yields the identifier I and the
\* title T, a run that ended without an exception leaves an output file
\* whose name embeds n and I and whose content is "Page ID: I",
\* "Page title: T", "", "---", "" and then the cleaned lines of the page.
C14_OutputNamedByPageAndId ==
    (step = "run_pages_clean" /\ raised = "none")
    => \A n \in BodyPages :
           Cleaned(job.pages[n], PAGES_PROFILE).page_id # None
           => NamedOutput(n, Cleaned(job.pages[n], PAGES_PROFILE))

\* The calls of a run in the order __init__ and run() make them, by the
\* value step has after each; "new" is before __init__ and "done" after run().
StepOrder ==
    << "new", "init", "copy_pdf", "create_toc_bash", "run_toc_bash", "clean_toc",
       "create_pages_bash", "run_pages_bash", "clean_pages", "extract_intrinsics",
       "remove_dirty_files", "move_clean_files", "done" >>
StepAfter(s) == StepOrder[(CHOOSE k \in 1..(Len(StepOrder) - 1) : StepOrder[k] = s) + 1]

\* C15: a run goes through its steps strictly in order: every step taken
\* starts from a run that has neither failed nor finished, and either
\* completes the one step that follows the last completed one or fails;
\* so no step is skipped, repeated or retried, none is taken back, and
\* none follows a failure.
C15_StepsInOrder ==
    [][/\ step \notin {"failed", "done"}
       /\ step' \in {StepAfter(step), "failed"}]_vars

\* A run that went through every step and wrote its output.
C15_Witness ==
    /\ step = "done"
    /\ <<"t", "o", "c", ".", "t", "x", "t">> \in DOMAIN data_dir
    /\ Cardinality(DOMAIN data_dir) = 1 + Len(lists.clean_pages)

\* C16: the temporary directories, and with them every temporary file, are
\* deleted on every exit path: when the run has ended, by completing or by
\* an exception in any step, no temporary directory is left.
C16_TempDeletedOnExit ==
    step \in {"done", "failed"} => temp = NoFiles

\* A run that failed in a late step, after scripts and extracted pages had
\* been written to the temporary directories.
C16_Witness ==
    /\ step = "failed"
    /\ raised = "TypeError"
    /\ Len(spawned) > 1
    /\ temp = NoFiles

\* C17: a pdftotext invocation that fails ends the run at once: it is the
\* last invocation made (no further page is extracted) and the caller has an
\* exception (the failure is reported, and nothing runs after it).
C17_ExtractionFailureEndsRun ==
    \A k \in 1..Len(spawned) :
        ~spawned[k].ok => /\ k = Len(spawned)
                          /\ raised # "none"

\* C18: a configuration or input error (PDF missing, output directory
\* missing, pdftotext not installed, invalid cleanup profile) is raised
\* before any external process is spawned: when the exception of such a job
\* reaches the caller, no pdftotext invocation has been made.
C18_ConfigErrorsBeforeAnyProcess ==
    (job.config # "ok" /\ raised # "none") => spawned = <<>>

----------------------------------------------------------------------------
(* TextBall and PdfToTextSubprocess of pdf_files/textball.py.  ball is     *)
(* [args, files, tool, obj, ret]: the paths the TextBall is given (TRUE: a *)
(* path, FALSE: None), the files at those paths (the PDF as the bytes      *)
(* pdftotext makes of it), the state of the pdftotext tool, the TextBall   *)
(* as a sequence of none or one [res_pdf, res_text, res_tarball, bytes,    *)
(* page_breaks], and what the last call returned.                          *)

MaxInvocations == 2     \* most pdftotext invocations of TextBall the model follows

\* _FileResource(path), arg telling whether a path is given: path is the
\* key of the file in ball.files
FileResource(files, key, arg) ==
    [path |-> IF arg THEN <<key>> ELSE <<>>,
     was_specified |-> arg,
     was_present |-> arg /\ key \in DOMAIN files]

\* _FileResource.is_present
is_present(files, res) == res.path # <<>> /\ res.path[1] \in DOMAIN files

\* The offsets of the form feeds of bs from the 1-based position k on.
RECURSIVE FormFeeds(_, _)
FormFeeds(bs, k) ==
    IF k > Len(bs) THEN <<>>
    ELSE IF bs[k] = FF THEN <<k - 1>> \o FormFeeds(bs, k + 1)
    ELSE FormFeeds(bs, k + 1)

\* TextBall._fetch_pagebreaks, after self._bytes = bs
fetch_pagebreaks(o, bs) ==
    IF bs = <<>> THEN [o EXCEPT !.bytes = bs]
    ELSE [o EXCEPT !.bytes = bs, !.page_breaks = FormFeeds(bs, 1)]

\* TextBall._load_text_bytes: [obj, spawned, raised]
load_text_bytes(b, o, sp) ==
    [obj |-> fetch_pagebreaks(o, b.files[o.res_text.path[1]]), spawned |-> sp, raised |-> "none"]

\* TextBall._load_pdf_bytes: PdfToTextSubprocess(path), run() and data.
\* __init__ raises when pdftotext is not installed; run() copies the PDF to
\* a temporary directory, runs pdftotext there with check=True, reads the
\* text and leaves the with statement, which deletes the directory.
load_pdf_bytes(b, o, sp) ==
    IF b.tool = "missing" THEN [obj |-> o, spawned |-> sp, raised |-> "RuntimeError"]
    ELSE IF b.tool = "fails"
    THEN [obj |-> o, spawned |-> Append(sp, [path |-> o.res_pdf.path[1], ok |-> FALSE]),
          raised |-> "CalledProcessError"]
    ELSE [obj |-> fetch_pagebreaks(o, b.files[o.res_pdf.path[1]]),
          spawned |-> Append(sp, [path |-> o.res_pdf.path[1], ok |-> TRUE]),
          raised |-> "none"]

\* (a variant: with neither file present nothing is loaded, nothing raised)
ensure_bytes_loaded_archive_skipped(b, o, sp) ==
    IF o.bytes # <<>> THEN [obj |-> o, spawned |-> sp, raised |-> "none"]
    ELSE IF is_present(b.files, o.res_text) THEN load_text_bytes(b, o, sp)
    ELSE IF is_present(b.files, o.res_pdf) THEN load_pdf_bytes(b, o, sp)
    ELSE [obj |-> o, spawned |-> sp, raised |-> "none"]

\* (a variant: the PDF is looked at before the text file)
ensure_bytes_loaded_pdf_first(b, o, sp) ==
    IF o.bytes # <<>> THEN [obj |-> o, spawned |-> sp, raised |-> "none"]
    ELSE IF is_present(b.files, o.res_pdf) THEN load_pdf_bytes(b, o, sp)
    ELSE IF is_present(b.files, o.res_text) THEN load_text_bytes(b, o, sp)
    ELSE [obj |-> o, spawned |-> sp, raised |-> "NotImplementedError"]

\* TextBall._ensure_bytes_loaded: [obj, spawned, raised]
ensure_bytes_loaded(b, o, sp) ==
    IF o.bytes # <<>> THEN [obj |-> o, spawned |-> sp, raised |-> "none"]
    ELSE IF is_present(b.files, o.res_text) THEN load_text_bytes(b, o, sp)
    ELSE IF is_present(b.files, o.res_pdf) THEN load_pdf_bytes(b, o, sp)
    ELSE [obj |-> o, spawned |-> sp, raised |-> "NotImplementedError"]

\* TextBall.__init__ from its three resources: [obj, spawned, raised], obj
\* the new TextBall as a sequence of none or one.
NewTextBall(pdf, txt, tar, sp) ==
    IF ~pdf.was_specified /\ ~txt.was_specified /\ ~tar.was_specified
    THEN [obj |-> <<>>, spawned |-> sp, raised |-> "ValueError"]
    ELSE IF ~pdf.was_present /\ ~txt.was_present /\ ~tar.was_present
    THEN [obj |-> <<>>, spawned |-> sp, raised |-> "FileNotFoundError"]
    ELSE [obj |-> << [res_pdf |-> pdf, res_text |-> txt, res_tarball |-> tar,
                      bytes |-> <<>>, page_breaks |-> <<>>] >>,
          spawned |-> sp, raised |-> "none"]

\* A call of the TextBall ended: r is [obj, spawned, raised] with obj a
\* sequence of none or one, value what the call returns when it returns.
BallEnded(name, r, value) ==
    /\ step' = name
    /\ raised' = r.raised
    /\ spawned' = r.spawned
    /\ ball' = [ball EXCEPT !.obj = r.obj,
                            !.ret = IF r.raised = "none" THEN <<value>> ELSE <<>>]
    /\ UNCHANGED <<job, data_dir, temp, lists>>
    /\ UNCHANGED <<idx_vars, cln_vars>>

\* TextBall(pdf_path=..., text_path=..., tarball_path=...): a new TextBall
\* on the same paths, as every run of the program makes one.
TextBallInit ==
    /\ BallEnded("init",
                 NewTextBall(FileResource(ball.files, "pdf", ball.args.pdf),
                             FileResource(ball.files, "text", ball.args.text),
                             FileResource(ball.files, "tarball", ball.args.tarball),
                             spawned),
                 "None")

\* The TextBall methods that resolve the text are called while the model
\* follows the pdftotext invocations.
BallCallable ==
    /\ ball.obj # <<>>
    /\ Len(spawned) < MaxInvocations

GotBytes(r) == BallEnded("get_bytes", [r EXCEPT !.obj = <<r.obj>>], r.obj.bytes)

\* TextBall.get_bytes
GetBytes ==
    /\ BallCallable
    /\ GotBytes(ensure_bytes_loaded(ball, ball.obj[1], spawned))

GotPageCount(r) ==
    BallEnded("get_page_count", [r EXCEPT !.obj = <<r.obj>>],
              IF Len(r.obj.bytes) = 0 THEN 0 ELSE Len(r.obj.page_breaks) + 1)

\* TextBall.get_page_count
GetPageCount ==
    /\ BallCallable
    /\ GotPageCount(ensure_bytes_loaded(ball, ball.obj[1], spawned))

\* One more self._ensure_bytes_loaded() in a method, r being what the
\* method has come to: an exception has ended it.
Ensured(b, r) ==
    IF r.raised # "none" THEN r ELSE ensure_bytes_loaded(b, r.obj, r.spawned)

\* The start of a method of the TextBall o.
Called(o, sp) == [obj |-> o, spawned |-> sp, raised |-> "none"]

\* What get_page_count returns after its _ensure_bytes_loaded.
PageCount(o) == IF Len(o.bytes) = 0 THEN 0 ELSE Len(o.page_breaks) + 1

\* bs[pb_start:pb_end] of get_page_bytes, for 0 <= page_idx < page_count
PageBytes(o, page_idx) ==
    Slice(o.bytes,
          IF page_idx = 0 THEN 0 ELSE o.page_breaks[page_idx] + 1,
          IF page_idx < Len(o.page_breaks) THEN o.page_breaks[page_idx + 1]
          ELSE Len(o.bytes))

\* The bytes 0xC2 0x85, 0xE2 0x80 0xA8 and 0xE2 0x80 0xA9 of the UTF-8
\* encodings of NEL, LSEP and PSEP; every other character of the model is
\* ASCII and is its own byte.
Utf8Lead == {"<C2>", "<E2>"}
Utf8Cont == {"<85>", "<80>", "<A8>", "<A9>"}

\* str.encode("utf-8")
Utf8Encode(c) ==
    IF c = NEL THEN <<"<C2>", "<85>">>
    ELSE IF c = LSEP THEN <<"<E2>", "<80>", "<A8>">>
    ELSE IF c = PSEP THEN <<"<E2>", "<80>", "<A9>">>
    ELSE <<c>>
RECURSIVE Encode(_)
Encode(s) == IF s = <<>> THEN <<>> ELSE Utf8Encode(Head(s)) \o Encode(Tail(s))

\* bytes.decode("utf-8") from the 1-based position k on: the characters, or
\* <<"UnicodeDecodeError">> in front of them when a byte sequence is not the
\* encoding of a character.
RECURSIVE Decode(_, _)
Decode(bs, k) ==
    IF k > Len(bs) THEN <<>>
    ELSE IF bs[k] \notin Utf8Lead \cup Utf8Cont THEN <<bs[k]>> \o Decode(bs, k + 1)
    ELSE IF Slice(bs, k - 1, k + 1) = Utf8Encode(NEL) THEN <<NEL>> \o Decode(bs, k + 2)
    ELSE IF Slice(bs, k - 1, k + 2) = Utf8Encode(LSEP) THEN <<LSEP>> \o Decode(bs, k + 3)
    ELSE IF Slice(bs, k - 1, k + 2) = Utf8Encode(PSEP) THEN <<PSEP>> \o Decode(bs, k + 3)
    ELSE <<"UnicodeDecodeError">>
Decodes(bs) == "UnicodeDecodeError" \notin {Decode(bs, 1)[k] : k \in 1..Len(Decode(bs, 1))}

\* The line boundaries of str.splitlines(): "\r\n" is one boundary.
SplitlinesBoundaries ==
    << <<CR, LF>>, <<LF>>, <<CR>>, <<VT>>, <<FF>>, <<FS>>, <<GS>>, <<RS>>,
       <<NEL>>, <<LSEP>>, <<PSEP>> >>

\* The pieces of s of the spans, in order.
Pieces(s, spans) == [k \in 1..Len(spans) |-> Slice(s, spans[k][1], spans[k][2])]

\* Python's lines without the empty string after a final line boundary.
DropLastEmpty(lines) ==
    IF lines[Len(lines)] = <<>> THEN SubSeq(lines, 1, Len(lines) - 1) ELSE lines

\* str.splitlines()
splitlines(s) == DropLastEmpty(Pieces(s, get_spans(s, SplitlinesBoundaries)))

GotPageBytes(page_idx, r) ==
    IF r.raised # "none" THEN BallEnded("get_page_bytes", [r EXCEPT !.obj = <<r.obj>>], <<>>)
    ELSE IF ~(0 <= page_idx /\ page_idx < PageCount(r.obj))
    THEN BallEnded("get_page_bytes",
                   [r EXCEPT !.obj = <<r.obj>>, !.raised = "ValueError"], <<>>)
    ELSE BallEnded("get_page_bytes", [r EXCEPT !.obj = <<r.obj>>], PageBytes(r.obj, page_idx))

\* TextBall.get_page_bytes: _ensure_bytes_loaded() is called by it and by
\* the get_page_count it calls.
GetPageBytes(page_idx) ==
    /\ BallCallable
    /\ GotPageBytes(page_idx, Ensured(ball, Ensured(ball, Called(ball.obj[1], spawned))))

GotPageLines(page_idx, r) ==
    IF r.raised # "none" THEN BallEnded("get_page_lines", [r EXCEPT !.obj = <<r.obj>>], <<>>)
    ELSE IF ~(0 <= page_idx /\ page_idx < PageCount(r.obj))
    THEN BallEnded("get_page_lines",
                   [r EXCEPT !.obj = <<r.obj>>, !.raised = "ValueError"], <<>>)
    ELSE IF ~Decodes(PageBytes(r.obj, page_idx))
    THEN BallEnded("get_page_lines",
                   [r EXCEPT !.obj = <<r.obj>>, !.raised = "UnicodeDecodeError"], <<>>)
    ELSE BallEnded("get_page_lines", [r EXCEPT !.obj = <<r.obj>>],
                   splitlines(Decode(PageBytes(r.obj, page_idx), 1)))

\* TextBall.get_page_lines: its own _ensure_bytes_loaded(), then
\* get_page_bytes, decoded and split.
GetPageLines(page_idx) ==
    /\ BallCallable
    /\ GotPageLines(page_idx,
                    Ensured(ball, Ensured(ball, Ensured(ball, Called(ball.obj[1], spawned)))))

\* The page indexes the model passes to get_page_bytes and get_page_lines.
BallPageArgs == (0 - 1)..2

\* The bytes of the text files, and of the texts pdftotext makes of the
\* PDFs, of the model.
TextFileBytes == { <<>>, <<"t">>, <<"t", FF, "u">>, <<"t", "<C2>", "<85>", FF, "<85>">> }
PdfTextBytes == { <<>>, <<"a">>, <<"a", FF, "b">> }

\* The files a TextBall may find: any of the three, present or not.
BallFiles ==
    UNION { [keys -> TextFileBytes \cup PdfTextBytes \cup {<<"t", "a", "r">>}] :
                keys \in SUBSET {"pdf", "text", "tarball"} }
GoodBallFiles ==
    { f \in BallFiles :
        /\ "pdf" \in DOMAIN f => f["pdf"] \in PdfTextBytes
        /\ "text" \in DOMAIN f => f["text"] \in TextFileBytes
        /\ "tarball" \in DOMAIN f => f["tarball"] = <<"t", "a", "r">> }

InitBall ==
    /\ ball \in [args : [pdf : BOOLEAN, text : BOOLEAN, tarball : BOOLEAN],
                 files : GoodBallFiles,
                 tool : {"ok", "missing", "fails"},
                 obj : {<<>>},
                 ret : {<<>>}]
    /\ job = <<>>
    /\ step = "new"
    /\ data_dir = NoFiles
    /\ temp = NoFiles
    /\ spawned = <<>>
    /\ raised = "none"
    /\ lists = NoLists
    /\ IndexIdle
    /\ CleanupIdle

NextBall ==
    \/ TextBallInit
    \/ GetBytes
    \/ GetPageCount
    \/ \E page_idx \in BallPageArgs : GetPageBytes(page_idx)
    \/ \E page_idx \in BallPageArgs : GetPageLines(page_idx)

SpecBall == InitBall /\ [][NextBall]_vars

----------------------------------------------------------------------------
(* Properties of TextBall.                                                 *)

\* The text file, and the PDF, of the TextBall is given and exists.
TextPresent == ball.args.text /\ "text" \in DOMAIN ball.files
PdfPresent == ball.args.pdf /\ "pdf" \in DOMAIN ball.files

\* C19: TextBall resolves its text in a fixed priority: a call that
\* resolves the text while the text file is present returns with the bytes
\* of the text file loaded and without a pdftotext invocation; pdftotext is
\* invoked only when the text file is not present and the PDF is.
C19_TextFileFirst ==
    [][/\ (TextPresent /\ step' \in {"get_bytes", "get_page_count"})
          => /\ raised' = "none"
             /\ spawned' = spawned
             /\ ball'.obj[1].bytes = ball.files["text"]
       /\ spawned' # spawned => ~TextPresent /\ PdfPresent]_vars

\* get_bytes returned the bytes of the text file although the PDF is
\* present too, and pdftotext was not invoked.
C19_Witness ==
    /\ step = "get_bytes"
    /\ TextPresent
    /\ PdfPresent
    /\ ball.tool = "ok"
    /\ ball.files["text"] # <<>>
    /\ ball.ret = <<ball.files["text"]>>
    /\ spawned = <<>>

\* C20: when the TextBall is given a text-file path and resolves its text
\* by converting the PDF, the converted text is written to that path: once
\* a conversion has succeeded the text file exists, and so no second
\* conversion is made.
C20_ConvertedTextIsCached ==
    (ball.args.text /\ \E k \in 1..Len(spawned) : spawned[k].ok)
    => /\ "text" \in DOMAIN ball.files
       /\ Cardinality({k \in 1..Len(spawned) : spawned[k].ok}) = 1

\* The archive is the only source of the TextBall that is present, and the
\* methods that resolve the text.
OnlyArchive ==
    /\ ball.args.tarball
    /\ "tarball" \in DOMAIN ball.files
    /\ ~TextPresent
    /\ ~PdfPresent
Resolving == {"get_bytes", "get_page_count", "get_page_bytes", "get_page_lines"}

\* C21: a TextBall whose only present source is the archive is accepted by
\* the constructor, and each of get_bytes, get_page_count, get_page_bytes
\* and get_page_lines on it raises NotImplementedError and returns
\* nothing; NotImplementedError is raised by no other call.
C21_ArchiveNotImplemented ==
    [][/\ (OnlyArchive /\ step' = "init") => (raised' = "none" /\ ball'.obj # <<>>)
       /\ (OnlyArchive /\ step' \in Resolving)
          => (raised' = "NotImplementedError" /\ ball'.ret = <<>>)
       /\ raised' = "NotImplementedError" => (OnlyArchive /\ step' \in Resolving)]_vars

\* get_page_lines raised NotImplementedError on an archive-only TextBall
\* whose text and PDF paths are given but lead to no file.
C21_Witness ==
    /\ step = "get_page_lines"
    /\ raised = "NotImplementedError"
    /\ OnlyArchive
    /\ ball.args.text
    /\ ball.args.pdf
    /\ ball.ret = <<>>

\* C22: with pdftotext not installed, constructing the TextBall for a PDF
\* source fails at construction with the tool-missing error (RuntimeError,
\* not FileNotFoundError), whether or not the PDF file exists.
C22_ToolMissingAtConstruction ==
    (ball.tool = "missing" /\ ball.args.pdf /\ step = "init")
    => (raised = "RuntimeError" /\ ball.obj = <<>>)

----------------------------------------------------------------------------
(* PdfManualExtract._fs_safe_str on its own: job is [s, returned], the     *)
(* argument and, as a sequence of none or one, what the call returned.     *)

\* The characters of the arguments, and the arguments: None, the example of
\* the documentation and every short string.
SafeChars == {"A", "x", "5", "-", "_", "/", "!", " ", "."}
SafeArgs == {None, <<"A", "V", "X", "-", "5", "1", "2", "/", "T", "e", "s", "t", "!">>} \cup SeqsUpTo(SafeChars, MaxTextLen)

FsSafeStr ==
    /\ step = "new"
    /\ step' = "fs_safe_str"
    /\ job' = [job EXCEPT !.returned = <<fs_safe_str(job.s)>>]
    /\ UNCHANGED <<data_dir, temp, spawned, raised, lists, ball>>
    /\ UNCHANGED <<idx_vars, cln_vars>>

InitSafe ==
    /\ job \in [s : SafeArgs, returned : {<<>>}]
    /\ step = "new"
    /\ data_dir = NoFiles
    /\ temp = NoFiles
    /\ spawned = <<>>
    /\ raised = "none"
    /\ lists = NoLists
    /\ ball = <<>>
    /\ IndexIdle
    /\ CleanupIdle

NextSafe == FsSafeStr

SpecSafe == InitSafe /\ [][NextSafe]_vars

\* A character _fs_safe_str keeps.
IsSafeChar(c) == IsAlnum(c) \/ c \in {"-", "_"}

\* What C23 says of the result r for the argument s.
SafeResult(s, r) ==
    IF s = None \/ s = <<>> THEN r = <<"_">>
    ELSE /\ Len(r) = Len(s)
         /\ \A k \in 1..Len(s) : r[k] = IF IsSafeChar(s[k]) THEN s[k] ELSE "_"
         /\ \A k \in 1..Len(r) : IsSafeChar(r[k])

\* C23: _fs_safe_str returns, for a string that is not empty, a string of
\* the same length that keeps every alphanumeric character, "-" and "_" and
\* has "_" for every other character, so that it holds only those; for the
\* empty string and for None it returns "_".
C23_FsSafeStr ==
    step = "fs_safe_str" => SafeResult(job.s, job.returned[1])

\* The documented example.
C23_Witness ==
    /\ step = "fs_safe_str"
    /\ job.s = <<"A", "V", "X", "-", "5", "1", "2", "/", "T", "e", "s", "t", "!">>
    /\ job.returned = <<<<"A", "V", "X", "-", "5", "1", "2", "_", "T", "e", "s", "t", "_">>>>

\* ---------------------------------------------------------------------
\* Properties of profile validation
\* ---------------------------------------------------------------------

\* Every field of the profile holds a bool and names a callable operation
\* of TextCleanup.
BoolsOfCallables(prof) ==
    \A f \in DOMAIN prof : f \in Callables /\ prof[f] \in PyBool

\* The last call raised.
CallRaised(op) == call.op = op /\ call.value # "self"

\* C24: __init__ and set_profile succeed only with a profile whose fields
\* all hold a bool and name a callable operation; a constructor that fails
\* creates no cleanup state, and a set_profile that fails leaves the
\* profile, the line list, page_id and page_title as they were.
C24_InvalidProfileChangesNothing ==
    [][/\ (call'.op = "__init__" /\ call'.value = "self") => BoolsOfCallables(profile')
       /\ (call'.op = "set_profile" /\ call'.value = "self") => BoolsOfCallables(profile')
       /\ (call'.op = "__init__" /\ call'.value # "self")
          => (call = NoCleanupCall /\ UNCHANGED <<profile, text, page_id, page_title>>)
       /\ (call'.op = "set_profile" /\ call'.value # "self")
          => UNCHANGED <<profile, text, page_id, page_title>>]_vars
C24_Witness ==
    /\ CallRaised("set_profile")
    /\ call.value = "AttributeError"
    /\ page_id # None
    /\ profile = PAGES_PROFILE

\* ---------------------------------------------------------------------
\* Properties of the output directory
\* ---------------------------------------------------------------------

\* The four steps of intel_manual_extract.py, and the raw table-of-contents
\* lines pdftotext writes.
ExtractSteps == {"run_toc_bash", "run_toc_clean", "run_pages_bash", "run_pages_clean"}
RawToc == ToolOutput([first |-> job.toc_range[1], last |-> job.toc_range[2]])

\* C25: once the four steps have been called and the last one ended without
\* an exception, the output directory holds toc.txt with the cleaned
\* table-of-contents text, no raw per-page file is left in it, and no file is
\* left in a temporary directory.
C25_NoRawFileRemains ==
    (step = "run_pages_clean" /\ raised = "none" /\ lists.called = ExtractSteps)
    => /\ <<"t", "o", "c", ".", "t", "x", "t">> \in DOMAIN data_dir
       /\ JoinLines(data_dir[<<"t", "o", "c", ".", "t", "x", "t">>]) = JoinLines(Cleaned(RawToc, TocProfile).text)
       /\ \A n \in BodyPages : PdfpageName(n) \notin DOMAIN data_dir
       /\ temp = NoFiles

\* ---------------------------------------------------------------------
\* Properties of the span caches
\* ---------------------------------------------------------------------

\* The calls on the PdfPageSequence and on the PdfPageText last obtained.
SeqOps == {"seq_len", "seq_getitem"}
PageOps == {"page_len", "page_getitem"}

\* C26: each instance scans its text for delimiters at most once: a call on
\* an instance that has its spans leaves them as they are, no instance ever
\* ran the scan twice, and a call repeated with the same argument returns
\* what it returned before.
C26_SpansComputedOnce ==
    [][/\ page_spans'.scans <= 1
       /\ line_spans'.scans <= 1
       /\ (page_spans.cached /\ ret'.op \in SeqOps \cup PageOps) => page_spans' = page_spans
       /\ (line_spans.cached /\ ret'.op \in PageOps) => line_spans' = line_spans
       /\ (ret'.op = ret.op /\ ret'.arg = ret.arg) => ret' = ret]_vars
C26_Witness ==
    /\ ret.op = "seq_len"
    /\ Len(cur_page) = 1
    /\ page_spans.scans = 1
    /\ line_spans.scans = 1
    /\ Len(page_spans.value) > 1

\* ---------------------------------------------------------------------
\* Properties of replace_spacetab
\* ---------------------------------------------------------------------

\* Whether the line holds more than four spaces in a row, and whether it
\* holds a tab with a whitespace character before or after it.
LongSpaceRun(line) ==
    \E i \in 1..(Len(line) - 4) : \A k \in i..(i + 4) : line[k] = " "
TabNextToSpace(line) ==
    \E i \in 1..(Len(line) - 1) :
        \/ line[i] = TAB /\ IsSpace(line[i + 1])
        \/ IsSpace(line[i]) /\ line[i + 1] = TAB

\* C27: after replace_spacetab no line holds a run of more than four spaces
\* nor a tab next to another whitespace character.
C27_SpacetabCollapsed ==
    call.op = "replace_spacetab"
    => \A i \in 1..Len(text) : ~LongSpaceRun(text[i]) /\ ~TabNextToSpace(text[i])

\* ---------------------------------------------------------------------
\* Properties of the line delimiters
\* ---------------------------------------------------------------------

\* The one-character line terminators, and the number of terminator
\* occurrences of s from offset pos on, a CR LF being one occurrence.
LineTerminators == {LF, CR, VT, FF, FS, GS, RS, NEL, LSEP, PSEP}
RECURSIVE TerminatorCount(_, _)
TerminatorCount(s, pos) ==
    IF pos >= Len(s) THEN 0
    ELSE IF StartsWithAt(s, <<CR, LF>>, pos) THEN 1 + TerminatorCount(s, pos + 2)
    ELSE IF s[pos + 1] \in LineTerminators THEN 1 + TerminatorCount(s, pos + 1)
    ELSE TerminatorCount(s, pos + 1)

\* Whether the span is an empty line between the CR and the LF of a CR LF.
InsideCrLf(s, span) ==
    /\ span[1] = span[2]
    /\ span[1] >= 1
    /\ span[1] < Len(s)
    /\ s[span[1]] = CR
    /\ s[span[1] + 1] = LF

\* C28: the line spans of a page whose text has m occurrences of a line
\* terminator, a CR LF being one occurrence, are m + 1, and none of them is
\* an empty line between a CR and its LF.
C28_CrLfIsOneDelimiter ==
    (Len(cur_page) = 1 /\ line_spans.cached)
    => /\ Len(line_spans.value) = TerminatorCount(cur_page[1].page_text, 0) + 1
       /\ \A k \in 1..Len(line_spans.value) :
              ~InsideCrLf(cur_page[1].page_text, line_spans.value[k])

\* ---------------------------------------------------------------------
\* Properties of page_id and page_title
\* ---------------------------------------------------------------------

\* Whether s is "page-", one character of [1-9A-Z], a hyphen and one to three
\* digits.
IsPageId(s) ==
    /\ Len(s) \in 8..10
    /\ SubSeq(s, 1, 5) = REPL_PAGEID_PREFIX
    /\ (IsUpper(s[6]) \/ (IsDigit(s[6]) /\ s[6] # "0"))
    /\ s[7] = "-"
    /\ \A k \in 8..Len(s) : IsDigit(s[k])

\* C29: page_id is None exactly when page_title is None, and a page_id that
\* is set is "page-", one character of [1-9A-Z], a hyphen and one to three
\* digits.
C29_IdAndTitleTogether ==
    /\ (page_id = None) <=> (page_title = None)
    /\ page_id # None => IsPageId(page_id)
C29_Witness ==
    /\ page_id # None
    /\ page_title = <<>>
    /\ IsPageId(page_id)
    /\ call.op # "scan_page_id"

----------------------------------------------------------------------------
(* The two page indexes on one text: a PdfPageSequence over the text and a *)
(* TextBall over the text file that holds its UTF-8 encoding.              *)

\* The characters of the texts: the form feed is the only page break among
\* them.
AgreeChars == {"a", FF, LF, NEL}

InitAgree ==
    /\ full_text \in SeqsUpTo(AgreeChars, MaxTextLen)
    /\ pdf_first_pagenum = 1
    /\ page_spans = Uncached
    /\ cur_page = <<>>
    /\ line_spans = Uncached
    /\ ret = NoCall
    /\ ball = [args |-> [pdf |-> FALSE, text |-> TRUE, tarball |-> FALSE],
               files |-> [key \in {"text"} |-> Encode(full_text)],
               tool |-> "ok",
               obj |-> <<>>,
               ret |-> <<>>]
    /\ job = <<>>
    /\ step = "new"
    /\ data_dir = NoFiles
    /\ temp = NoFiles
    /\ spawned = <<>>
    /\ raised = "none"
    /\ lists = NoLists
    /\ CleanupIdle

NextAgree ==
    \/ SeqLen
    \/ \E i \in BallPageArgs : SeqGetItem(i)
    \/ TextBallInit
    \/ GetPageCount
    \/ \E page_idx \in BallPageArgs : GetPageBytes(page_idx)

SpecAgree == InitAgree /\ [][NextAgree]_vars

\* PdfPageSequence[i].page_text, the page spans being computed.
PageText(i) == PageAt(full_text, page_spans.value, pdf_first_pagenum, i, i + 1).page_text

\* C30: once both page counts are asked for, the TextBall reports the page
\* count the PdfPageSequence reports, and for every index below it
\* get_page_bytes gives the encoding of the page_text of the page.
C30_PageIndexesAgree ==
    (step = "get_page_count" /\ raised = "none" /\ ret.op = "seq_len")
    => /\ ball.ret[1] = ret.value
       /\ \A i \in 0..(ret.value - 1) : PageBytes(ball.obj[1], i) = Encode(PageText(i))

====
